---- MODULE Spec2Model ----
(***************************************************************************)
(* ALFS: a CFS-style fair-share CPU scheduler (scheduler.c, task.c,        *)
(* cgroup.c, heap.c, alfs.h).  The model follows the C code: the task      *)
(* registry is an array of task objects, the runnable heap an array of     *)
(* references to them, each CPU slot a reference or NULL.  Task objects    *)
(* are named by handles (their addresses), so two tasks may carry the same *)
(* task_id, as the code allows.                                            *)
(*                                                                         *)
(* vruntime is a C double.  The model keeps it in fixed point, in units of *)
(* 1/VScale; the nice values and shares the model feeds in are chosen so   *)
(* that every delta quanta*1024/effective_weight is a whole number of      *)
(* those units (DeltaExact checks it), so no rounding is modelled.         *)
(***************************************************************************)
EXTENDS Integers, Sequences, FiniteSets, TLC

VARIABLES
    cpu_count,      \* Scheduler.cpu_count
    quanta,         \* Scheduler.quanta
    current_vtime,  \* Scheduler.current_vtime
    preemptions,    \* Scheduler.preemptions
    migrations,     \* Scheduler.migrations
    task,           \* the heap-allocated Task objects: handle -> Task
    all_tasks,      \* Scheduler.all_tasks[0..task_count-1], handles
    cgroups,        \* Scheduler.cgroups[0..cgroup_count-1], Cgroup records
    heap,           \* Scheduler.runnable_heap->tasks[0..size-1], handles
    cpu_queues,     \* Scheduler.cpu_queues[c].current_task, handle or NULL
    tick,           \* the SchedulerTick the last scheduler_tick returned
    ret,            \* what the last scheduler_process_event returned
    last,           \* the last call: the action of the event, or "TICK"
    arg,            \* the task or cgroup id the last event named, or ""
    ev,             \* the Event of the last call, blank after a tick
    before,         \* last, arg and the schedule of tick as they were
                    \* before the last step
    tf,             \* main: the TimeFrame being served, the events applied
                    \* from it so far and what each returned
    nevents,        \* events processed so far
    nticks,         \* ticks run so far
    ran,            \* per task object: ticks on which it was scheduled
    rebound,        \* history: an event changed a quota, or the cgroup
                    \* record that a task is charged to
    replay          \* history: the calls a first scheduler instance got and
                    \* the ticks it returned, and how far a second instance
                    \* that is given the same calls has come

vars == <<cpu_count, quanta, current_vtime, preemptions, migrations, task,
          all_tasks, cgroups, heap, cpu_queues, tick, ret, last, arg, ev,
          before, tf, nevents, nticks, ran, rebound, replay>>

-----------------------------------------------------------------------------
(* Bounds of the model *)

MaxTasks == 2
MaxCgroups == 2
MaxEvents == 3
MaxTicks == 3
MaxTicksFair == 100
MaxTicksShares == 40
MaxLifeEvents == 4
MaxFrames == 2
MaxQuotaEvents == 3
MaxTicksQuota == 4
MaxFrameLen == 2
MaxInputs == 4
MaxBurstEvents == 4
MaxBurstTicks == 3
MaxBoundEvents == 5
MaxBoundTicks == 3
MaxStarveTicks == 8
StarveWithin == 4
MaxFullTicks == 5
MaxClampEvents == 3
HeapVruntimes == {0, 60}

(* Program constants *)

NICE_0_WEIGHT == 1024
DEFAULT_CPU_SHARES == 1024
DEFAULT_CPU_PERIOD_US == 100000
UNLIMITED_QUOTA == -1
NICE_MIN == -20
NICE_MAX == 19
NULL == 0
\* a NULL char pointer (a string argument that is absent)
NullStr == "<NULL>"
VScale == 4 * 15

sched_prio_to_weight ==
    << 88761, 71755, 56483, 46273, 36291,
       29154, 23254, 18705, 14949, 11916,
        9548,  7620,  6100,  4904,  3906,
        3121,  2501,  1991,  1586,  1277,
        1024,   820,   655,   526,   423,
         335,   272,   215,   172,   137,
         110,    87,    70,    56,    45,
          36,    29,    23,    18,    15 >>

nice_to_weight(nice) ==
    LET n1 == IF nice < NICE_MIN THEN NICE_MIN ELSE nice
        n2 == IF n1 > NICE_MAX THEN NICE_MAX ELSE n1
    IN  sched_prio_to_weight[n2 - NICE_MIN + 1]

\* runtime * (NICE_0_WEIGHT / weight), in units of 1/VScale
\* a variant that charges nothing
calc_vruntime_delta_Zero(runtime, weight) == 0

calc_vruntime_delta(runtime, weight) ==
    (runtime * NICE_0_WEIGHT * VScale) \div weight

-----------------------------------------------------------------------------
(* Sequence helpers: C arrays are 0-based, sequences 1-based *)

At(s, i) == s[i + 1]

SetAt(s, i, v) == [s EXCEPT ![i + 1] = v]

SeqToSet(s) == {s[i] : i \in 1..Len(s)}

Cpus == 0..(cpu_count - 1)

-----------------------------------------------------------------------------
(* heap.c.  The heap operators work on a memory m = [task, heap]: the task *)
(* objects (for vruntime and heap_index) and the heap array.               *)

parent(i) == (i - 1) \div 2
left_child(i) == 2 * i + 1
right_child(i) == 2 * i + 2

\* a variant that swaps the slots and leaves the index fields as they were
heap_swap_NoIndex(m, i, j) ==
    [task |-> m.task,
     heap |-> SetAt(SetAt(m.heap, i, At(m.heap, j)), j, At(m.heap, i))]

heap_swap(m, i, j) ==
    LET ti == At(m.heap, i)
        tj == At(m.heap, j)
        h1 == SetAt(SetAt(m.heap, i, tj), j, ti)
        t1 == [m.task EXCEPT ![tj].heap_index = i]
        t2 == [t1 EXCEPT ![ti].heap_index = j]
    IN  [task |-> t2, heap |-> h1]

RECURSIVE heap_bubble_up(_, _)
heap_bubble_up(m, idx) ==
    IF idx > 0 /\ m.task[At(m.heap, parent(idx))].vruntime
                    > m.task[At(m.heap, idx)].vruntime
    THEN heap_bubble_up(heap_swap(m, idx, parent(idx)), parent(idx))
    ELSE m

\* a variant that stops after one level and looks at the left child only
heap_bubble_down_Left(m, idx) ==
    IF left_child(idx) < Len(m.heap)
       /\ m.task[At(m.heap, left_child(idx))].vruntime
             < m.task[At(m.heap, idx)].vruntime
    THEN heap_swap(m, idx, left_child(idx))
    ELSE m

RECURSIVE heap_bubble_down(_, _)
heap_bubble_down(m, idx) ==
    LET size == Len(m.heap)
        left == left_child(idx)
        right == right_child(idx)
        vr(i) == m.task[At(m.heap, i)].vruntime
        min1 == IF left < size /\ vr(left) < vr(idx) THEN left ELSE idx
        min_idx == IF right < size /\ vr(right) < vr(min1) THEN right ELSE min1
    IN  IF min_idx # idx
        THEN heap_bubble_down(heap_swap(m, idx, min_idx), min_idx)
        ELSE m

heap_insert(m, h) ==
    LET idx == Len(m.heap)
        m1 == [task |-> [m.task EXCEPT ![h].heap_index = idx],
               heap |-> Append(m.heap, h)]
    IN  heap_bubble_up(m1, idx)

\* returns [m, min]; min = NULL on an empty heap
heap_extract_min(m) ==
    IF Len(m.heap) = 0 THEN [m |-> m, min |-> NULL]
    ELSE LET min_task == At(m.heap, 0)
             size == Len(m.heap) - 1
             t1 == [m.task EXCEPT ![min_task].heap_index = -1]
         IN  IF size > 0
             THEN LET lastt == At(m.heap, size)
                      h1 == SetAt(SubSeq(m.heap, 1, size), 0, lastt)
                      t2 == [t1 EXCEPT ![lastt].heap_index = 0]
                  IN  [m |-> heap_bubble_down([task |-> t2, heap |-> h1], 0),
                       min |-> min_task]
             ELSE [m |-> [task |-> t1, heap |-> <<>>], min |-> min_task]

heap_peek(m) == IF Len(m.heap) = 0 THEN NULL ELSE At(m.heap, 0)

heap_update(m, h) ==
    IF m.task[h].heap_index < 0 \/ m.task[h].heap_index >= Len(m.heap) THEN m
    ELSE LET idx == m.task[h].heap_index
         IN  IF idx > 0 /\ m.task[At(m.heap, parent(idx))].vruntime
                            > m.task[h].vruntime
             THEN heap_bubble_up(m, idx)
             ELSE heap_bubble_down(m, idx)

\* returns [m, rc]
heap_remove(m, h) ==
    IF m.task[h].heap_index < 0 \/ m.task[h].heap_index >= Len(m.heap)
    THEN [m |-> m, rc |-> -1]
    ELSE LET idx == m.task[h].heap_index
             size == Len(m.heap) - 1
             t1 == [m.task EXCEPT ![h].heap_index = -1]
         IN  IF idx < size
             THEN LET lastt == At(m.heap, size)
                      h1 == SetAt(SubSeq(m.heap, 1, size), idx, lastt)
                      t2 == [t1 EXCEPT ![lastt].heap_index = idx]
                      m1 == [task |-> t2, heap |-> h1]
                  IN  [m |-> IF idx > 0 /\ m1.task[At(h1, parent(idx))].vruntime
                                             > m1.task[At(h1, idx)].vruntime
                             THEN heap_bubble_up(m1, idx)
                             ELSE heap_bubble_down(m1, idx),
                       rc |-> 0]
             ELSE [m |-> [task |-> t1, heap |-> SubSeq(m.heap, 1, size)],
                   rc |-> 0]

-----------------------------------------------------------------------------
(* task.c *)

\* task_create without the default cgroup: the argument is kept as given
task_create_NoDefault(task_id, nice, cgroup_id) ==
    [task_id |-> task_id,
     nice |-> IF nice < NICE_MIN THEN NICE_MIN
              ELSE IF nice > NICE_MAX THEN NICE_MAX ELSE nice,
     vruntime |-> 0,
     weight |-> nice_to_weight(IF nice < NICE_MIN THEN NICE_MIN
                               ELSE IF nice > NICE_MAX THEN NICE_MAX ELSE nice),
     state |-> "RUNNABLE",
     cgroup_id |-> cgroup_id,
     cpu_affinity |-> <<>>,
     current_cpu |-> -1,
     burst_remaining |-> 0,
     heap_index |-> -1,
     is_burst |-> FALSE]

task_create(task_id, nice, cgroup_id) ==
    LET n1 == IF nice < NICE_MIN THEN NICE_MIN ELSE nice
        n2 == IF n1 > NICE_MAX THEN NICE_MAX ELSE n1
    IN  [task_id |-> task_id,
         nice |-> n2,
         vruntime |-> 0,
         weight |-> nice_to_weight(n2),
         state |-> "RUNNABLE",
         cgroup_id |-> IF cgroup_id # NullStr THEN cgroup_id ELSE "0",
         cpu_affinity |-> <<>>,
         current_cpu |-> -1,
         burst_remaining |-> 0,
         heap_index |-> -1,
         is_burst |-> FALSE]

task_set_affinity(t, cpu_mask) == [t EXCEPT !.cpu_affinity = cpu_mask]

task_set_nice(t, nice) ==
    LET n1 == IF nice < NICE_MIN THEN NICE_MIN ELSE nice
        n2 == IF n1 > NICE_MAX THEN NICE_MAX ELSE n1
    IN  [t EXCEPT !.nice = n2, !.weight = nice_to_weight(n2)]

task_can_run_on_cpu(t, cpu_id) ==
    \/ Len(t.cpu_affinity) = 0
    \/ \E i \in 1..Len(t.cpu_affinity) : t.cpu_affinity[i] = cpu_id

-----------------------------------------------------------------------------
(* cgroup.c *)

cgroup_create(cgroup_id, cpu_shares, cpu_quota_us, cpu_period_us, cpu_mask) ==
    [cgroup_id |-> cgroup_id,
     cpu_shares |-> IF cpu_shares > 0 THEN cpu_shares ELSE DEFAULT_CPU_SHARES,
     cpu_quota_us |-> cpu_quota_us,
     cpu_period_us |-> IF cpu_period_us > 0 THEN cpu_period_us
                       ELSE DEFAULT_CPU_PERIOD_US,
     cpu_mask |-> cpu_mask,
     quota_used |-> 0,
     period_start_vtime |-> 0]

\* a NULL cpu_mask is passed as the empty sequence: the code tests
\* cpu_mask && cpu_mask_count > 0, and a NULL mask always comes with count 0
cgroup_modify(cg, cpu_shares, cpu_quota_us, cpu_period_us, cpu_mask) ==
    LET c1 == IF cpu_shares > 0 THEN [cg EXCEPT !.cpu_shares = cpu_shares] ELSE cg
        c2 == IF cpu_quota_us >= -1 THEN [c1 EXCEPT !.cpu_quota_us = cpu_quota_us]
              ELSE c1
        c3 == IF cpu_period_us > 0 THEN [c2 EXCEPT !.cpu_period_us = cpu_period_us]
              ELSE c2
    IN  IF Len(cpu_mask) > 0
        THEN [c3 EXCEPT !.cpu_mask = cpu_mask]
        ELSE c3

cgroup_allows_cpu(cg, cpu_id) ==
    \/ Len(cg.cpu_mask) = 0
    \/ \E i \in 1..Len(cg.cpu_mask) : cg.cpu_mask[i] = cpu_id

cgroup_has_quota(cg) ==
    \/ cg.cpu_quota_us < 0
    \/ cg.quota_used < cg.cpu_quota_us

cgroup_account_runtime(cg, runtime) ==
    IF cg.cpu_quota_us > 0 /\ runtime > 0
    THEN [cg EXCEPT !.quota_used = @ + runtime]
    ELSE cg

cgroup_reset_period(cg, vtime) ==
    [cg EXCEPT !.quota_used = 0, !.period_start_vtime = vtime]

-----------------------------------------------------------------------------
(* scheduler.c: lookups and helpers *)

\* the first task of the registry with this id, or NULL
scheduler_find_task(tsk, order, task_id) ==
    LET hits == {i \in 1..Len(order) : tsk[order[i]].task_id = task_id}
    IN  IF hits = {} THEN NULL
        ELSE order[CHOOSE i \in hits : \A j \in hits : i <= j]

\* the (1-based) slot of the first cgroup with this id, or NULL
scheduler_find_cgroup(cgs, cgroup_id) ==
    LET hits == {i \in 1..Len(cgs) : cgs[i].cgroup_id = cgroup_id}
    IN  IF hits = {} THEN NULL
        ELSE CHOOSE i \in hits : \A j \in hits : i <= j

\* a variant that forgets the cgroup's CPU mask
can_task_run_on_cpu_AffinityOnly(cgs, t, cpu_id) ==
    task_can_run_on_cpu(t, cpu_id)

can_task_run_on_cpu(cgs, t, cpu_id) ==
    /\ task_can_run_on_cpu(t, cpu_id)
    /\ \/ t.cgroup_id = ""
       \/ LET c == scheduler_find_cgroup(cgs, t.cgroup_id)
          IN  c = NULL \/ cgroup_allows_cpu(cgs[c], cpu_id)

Active(tsk, order) ==
    {h \in SeqToSet(order) : tsk[h].state \in {"RUNNABLE", "RUNNING"}}

get_min_vruntime(tsk, order) ==
    LET a == Active(tsk, order)
    IN  IF a = {} THEN 0
        ELSE LET h == CHOOSE x \in a : \A y \in a : tsk[x].vruntime <= tsk[y].vruntime
             IN  tsk[h].vruntime

\* a variant that reports no vruntime above zero
get_max_vruntime_Zero(tsk, order) == 0

get_max_vruntime(tsk, order) ==
    LET a == {h \in Active(tsk, order) : tsk[h].vruntime > 0}
    IN  IF a = {} THEN 0
        ELSE LET h == CHOOSE x \in a : \A y \in a : tsk[x].vruntime >= tsk[y].vruntime
             IN  tsk[h].vruntime

\* a variant that forgets the cgroup's shares
get_effective_task_weight_NoShares(cgs, t) ==
    IF t.weight < 1 THEN 1 ELSE t.weight

get_effective_task_weight(cgs, t) ==
    LET c == IF t.cgroup_id = "" THEN NULL
             ELSE scheduler_find_cgroup(cgs, t.cgroup_id)
        w == IF c # NULL /\ cgs[c].cpu_shares > 0
             THEN (t.weight * cgs[c].cpu_shares) \div DEFAULT_CPU_SHARES
             ELSE t.weight
    IN  IF w < 1 THEN 1 ELSE w

scheduler_add_task(m, order, h) ==
    [order |-> Append(order, h),
     m |-> IF m.task[h].state = "RUNNABLE" THEN heap_insert(m, h) ELSE m]

\* removes task object h: from the heap, the CPU slots and the registry
\* (the last registry entry moves into its slot); the object is freed
FreeTask(m1, order, slots, h) ==
    LET i == CHOOSE k \in 1..Len(order) : order[k] = h
        n == Len(order)
    IN  [m |-> [task |-> [x \in (DOMAIN m1.task) \ {h} |-> m1.task[x]],
                heap |-> m1.heap],
         order |-> SubSeq([order EXCEPT ![i] = order[n]], 1, n - 1),
         slots |-> [c \in DOMAIN slots |-> IF slots[c] = h THEN NULL ELSE slots[c]]]

scheduler_remove_task(m, order, slots, h) ==
    FreeTask(IF m.task[h].heap_index >= 0 THEN heap_remove(m, h).m ELSE m,
             order, slots, h)

scheduler_remove_cgroup(tsk, cgs, i) ==
    LET id == cgs[i].cgroup_id
        n == Len(cgs)
    IN  [task |-> [h \in DOMAIN tsk |->
                     IF tsk[h].cgroup_id = id
                     THEN [tsk[h] EXCEPT !.cgroup_id = "0"] ELSE tsk[h]],
         cgroups |-> SubSeq([cgs EXCEPT ![i] = cgs[n]], 1, n - 1)]

-----------------------------------------------------------------------------
(* Events (alfs.h: Event).  A field the message does not carry is zero.    *)

TaskIds == {"T1", "T2"}
IdRank(id) == IF id = "T1" THEN 1 ELSE 2
CgroupIds == {"0", "A"}
NiceVals == {19}
MaskVals == {<<>>, <<0>>}
BurstVals == {1, 2}

BaseEvent(a) ==
    [action |-> a, task_id |-> "", cgroup_id |-> "", new_cgroup_id |-> "",
     nice |-> 0, cpu_mask |-> <<>>, cpu_shares |-> 0, cpu_quota_us |-> 0,
     cpu_period_us |-> 0, burst_duration |-> 0, has_nice |-> FALSE,
     has_cpu_shares |-> FALSE, has_cpu_quota |-> FALSE,
     has_cpu_period |-> FALSE, has_cpu_mask |-> FALSE]

TaskEvent(a, id) == [BaseEvent(a) EXCEPT !.task_id = id]

\* the cgroup settings a CgroupCreate or CgroupModify carries
CgroupFields ==
    { [has_cpu_shares |-> FALSE, cpu_shares |-> 0, has_cpu_quota |-> FALSE,
       cpu_quota_us |-> 0, has_cpu_period |-> FALSE, cpu_period_us |-> 0,
       has_cpu_mask |-> FALSE, cpu_mask |-> <<>>],
      [has_cpu_shares |-> TRUE, cpu_shares |-> 4096, has_cpu_quota |-> TRUE,
       cpu_quota_us |-> 1000, has_cpu_period |-> TRUE, cpu_period_us |-> 2000,
       has_cpu_mask |-> FALSE, cpu_mask |-> <<>>],
      [has_cpu_shares |-> TRUE, cpu_shares |-> 128, has_cpu_quota |-> TRUE,
       cpu_quota_us |-> 2000, has_cpu_period |-> FALSE, cpu_period_us |-> 0,
       has_cpu_mask |-> TRUE, cpu_mask |-> <<1>>],
      [has_cpu_shares |-> FALSE, cpu_shares |-> 0, has_cpu_quota |-> TRUE,
       cpu_quota_us |-> -1, has_cpu_period |-> TRUE, cpu_period_us |-> 0,
       has_cpu_mask |-> TRUE, cpu_mask |-> <<>>],
      [has_cpu_shares |-> FALSE, cpu_shares |-> 0, has_cpu_quota |-> TRUE,
       cpu_quota_us |-> 1000, has_cpu_period |-> FALSE, cpu_period_us |-> 0,
       has_cpu_mask |-> FALSE, cpu_mask |-> <<>>] }

CgroupEvent(a, id, f) ==
    [BaseEvent(a) EXCEPT !.cgroup_id = id,
        !.has_cpu_shares = f.has_cpu_shares, !.cpu_shares = f.cpu_shares,
        !.has_cpu_quota = f.has_cpu_quota, !.cpu_quota_us = f.cpu_quota_us,
        !.has_cpu_period = f.has_cpu_period, !.cpu_period_us = f.cpu_period_us,
        !.has_cpu_mask = f.has_cpu_mask, !.cpu_mask = f.cpu_mask]

\* whether the event changes a quota or the record a task is charged to:
\* a CgroupModify that carries a quota, a TaskMoveCgroup, a CgroupDelete,
\* or a CgroupCreate for an id that tasks name and that had no record
Rebinds(e) ==
    \/ /\ e.action = "CGROUP_MODIFY"
       /\ e.has_cpu_quota
       /\ \E i \in 1..Len(cgroups) : cgroups[i].cgroup_id = e.cgroup_id
    \/ /\ e.action = "TASK_MOVE_CGROUP"
       /\ \E h \in DOMAIN task : task[h].task_id = e.task_id
    \/ /\ e.action = "CGROUP_DELETE"
       /\ \E i \in 1..Len(cgroups) : cgroups[i].cgroup_id = e.cgroup_id
    \/ /\ e.action = "CGROUP_CREATE"
       /\ \A i \in 1..Len(cgroups) : cgroups[i].cgroup_id # e.cgroup_id
       /\ \E h \in DOMAIN task : task[h].cgroup_id = e.cgroup_id

\* nothing is recorded or replayed
NoReplay ==
    [phase |-> 0, inputs |-> <<>>, outs |-> <<>>, pos |-> 0, outs2 |-> <<>>]

\* the history after a call: the first instance records the call and the
\* tick it returned, the second the tick it returned
Recorded(rp, e, vtime, out) ==
    IF rp.phase = 1
    THEN [rp EXCEPT !.inputs = Append(@, [e |-> e, vtime |-> vtime]),
                    !.outs = @ \o out]
    ELSE IF rp.phase = 2
    THEN [rp EXCEPT !.pos = @ + 1, !.outs2 = @ \o out]
    ELSE rp

\* what every event leaves alone, and the bookkeeping of the call
EventFrame(e, r) ==
    /\ nevents' = nevents + 1
    /\ last' = e.action
    /\ arg' = (IF e.task_id # "" THEN e.task_id ELSE e.cgroup_id)
    /\ ev' = e
    /\ before' = [last |-> last, arg |-> arg, schedule |-> tick.schedule]
    /\ tf' = (IF tf.done THEN tf
              ELSE [tf EXCEPT !.applied = Append(@, [e |-> e, ret |-> r])])
    /\ ret' = r
    /\ rebound' = (rebound \/ Rebinds(e))
    /\ replay' = Recorded(replay, e, 0, <<>>)
    /\ UNCHANGED <<cpu_count, quanta, current_vtime, preemptions, migrations,
                   tick, nticks>>

\* the address calloc returns is any free one: the lowest, and in the second
\* instance of a replay the highest
NewHandle ==
    IF replay.phase = 2
    THEN CHOOSE h \in 1..MaxTasks :
            /\ h \notin DOMAIN task
            /\ \A g \in 1..MaxTasks : g \notin DOMAIN task => h >= g
    ELSE CHOOSE h \in 1..MaxTasks :
            /\ h \notin DOMAIN task
            /\ \A g \in 1..MaxTasks : g \notin DOMAIN task => h <= g

\* the optional fields a TaskCreate carries
TaskCreateFields ==
    { [has_nice |-> FALSE, nice |-> 0, cgroup_id |-> "",
       has_cpu_mask |-> FALSE, cpu_mask |-> <<>>],
      [has_nice |-> TRUE, nice |-> 19, cgroup_id |-> "",
       has_cpu_mask |-> FALSE, cpu_mask |-> <<>>],
      [has_nice |-> FALSE, nice |-> 0, cgroup_id |-> "A",
       has_cpu_mask |-> FALSE, cpu_mask |-> <<>>],
      [has_nice |-> FALSE, nice |-> 0, cgroup_id |-> "",
       has_cpu_mask |-> TRUE, cpu_mask |-> <<1>>] }

M == [task |-> task, heap |-> heap]

-----------------------------------------------------------------------------
(* scheduler_process_event, one action per event kind *)

DoTaskCreate(e) ==
    LET max_vr == get_max_vruntime(task, all_tasks)
        nice == IF e.has_nice THEN e.nice ELSE 0
        t0 == task_create(e.task_id, nice,
                          IF e.cgroup_id # "" THEN e.cgroup_id ELSE NullStr)
        t1 == [t0 EXCEPT !.vruntime = max_vr]
        t2 == IF e.has_cpu_mask THEN task_set_affinity(t1, e.cpu_mask) ELSE t1
        h == NewHandle
        m0 == [task |-> [x \in DOMAIN task \cup {h} |->
                            IF x = h THEN t2 ELSE task[x]],
               heap |-> heap]
    IN  /\ Len(all_tasks) < MaxTasks
        /\ \E r \in {scheduler_add_task(m0, all_tasks, h)} :
             /\ task' = r.m.task
             /\ heap' = r.m.heap
             /\ all_tasks' = r.order
        /\ ran' = [x \in DOMAIN task \cup {h} |-> IF x = h THEN 0 ELSE ran[x]]
        /\ UNCHANGED <<cgroups, cpu_queues>>
        /\ EventFrame(e, 0)

\* task ids are opaque: a new task takes the first id not in the registry,
\* or repeats an id that is
CreateIds ==
    LET used == {task[h].task_id : h \in DOMAIN task}
        free == TaskIds \ used
    IN  used \cup {id \in free : \A x \in free : IdRank(id) <= IdRank(x)}

\* the ids events name: those in the registry and the first that is not
EventIds ==
    LET used == {task[h].task_id : h \in DOMAIN task}
        free == TaskIds \ used
    IN  used \cup {id \in free : \A x \in free : IdRank(id) <= IdRank(x)}

TaskCreate ==
    nevents < MaxEvents /\ \E id \in CreateIds, f \in TaskCreateFields :
        DoTaskCreate([TaskEvent("TASK_CREATE", id) EXCEPT
                        !.has_nice = f.has_nice, !.nice = f.nice,
                        !.cgroup_id = f.cgroup_id,
                        !.has_cpu_mask = f.has_cpu_mask,
                        !.cpu_mask = f.cpu_mask])

DoTaskExit(e) ==
    LET h == scheduler_find_task(task, all_tasks, e.task_id)
        m0 == [task |-> [task EXCEPT ![h].state = "EXITED"], heap |-> heap]
    IN  /\ IF h # NULL
           THEN \E r \in {scheduler_remove_task(m0, all_tasks, cpu_queues, h)} :
                /\ task' = r.m.task
                /\ heap' = r.m.heap
                /\ all_tasks' = r.order
                /\ cpu_queues' = r.slots
                /\ ran' = [x \in DOMAIN r.m.task |-> ran[x]]
           ELSE UNCHANGED <<task, heap, all_tasks, cpu_queues, ran>>
        /\ UNCHANGED cgroups
        /\ EventFrame(e, 0)

TaskExit == nevents < MaxEvents /\ \E id \in EventIds : DoTaskExit(TaskEvent("TASK_EXIT", id))

\* a variant that leaves the task in its CPU slot
DoTaskBlock_KeepSlot(e) ==
    LET h == scheduler_find_task(task, all_tasks, e.task_id)
        m0 == [task |-> [task EXCEPT ![h].state = "BLOCKED"], heap |-> heap]
    IN  /\ IF h # NULL
           THEN \E m1 \in {IF task[h].heap_index >= 0
                            THEN heap_remove(m0, h).m ELSE m0} :
                /\ heap' = m1.heap
                /\ task' = m1.task
           ELSE UNCHANGED <<task, heap>>
        /\ UNCHANGED <<all_tasks, cgroups, cpu_queues, ran>>
        /\ EventFrame(e, 0)

DoTaskBlock(e) ==
    LET h == scheduler_find_task(task, all_tasks, e.task_id)
        m0 == [task |-> [task EXCEPT ![h].state = "BLOCKED"], heap |-> heap]
        cpu == task[h].current_cpu
    IN  /\ IF h # NULL
           THEN \E m1 \in {IF task[h].heap_index >= 0
                            THEN heap_remove(m0, h).m ELSE m0} :
                /\ heap' = m1.heap
                /\ IF cpu >= 0
                   THEN /\ cpu_queues' = [cpu_queues EXCEPT ![cpu] = NULL]
                        /\ task' = [m1.task EXCEPT ![h].current_cpu = -1]
                   ELSE /\ cpu_queues' = cpu_queues
                        /\ task' = m1.task
           ELSE UNCHANGED <<task, heap, cpu_queues>>
        /\ UNCHANGED <<all_tasks, cgroups, ran>>
        /\ EventFrame(e, 0)

TaskBlock == nevents < MaxEvents /\ \E id \in EventIds : DoTaskBlock(TaskEvent("TASK_BLOCK", id))

\* a variant that does not ask whether the task is Blocked
DoTaskUnblock_AnyState(e) ==
    LET h == scheduler_find_task(task, all_tasks, e.task_id)
        t1 == [task EXCEPT ![h].state = "RUNNABLE"]
        min_vr == get_min_vruntime(t1, all_tasks)
        t2 == IF t1[h].vruntime < min_vr - 1 * VScale
              THEN [t1 EXCEPT ![h].vruntime = min_vr - 1 * VScale]
              ELSE t1
    IN  /\ IF h # NULL /\ task[h].heap_index < 0
           THEN \E m1 \in {heap_insert([task |-> t2, heap |-> heap], h)} :
                task' = m1.task /\ heap' = m1.heap
           ELSE UNCHANGED <<task, heap>>
        /\ UNCHANGED <<all_tasks, cgroups, cpu_queues, ran>>
        /\ EventFrame(e, 0)

DoTaskUnblock(e) ==
    LET h == scheduler_find_task(task, all_tasks, e.task_id)
        t1 == [task EXCEPT ![h].state = "RUNNABLE"]
        min_vr == get_min_vruntime(t1, all_tasks)
        t2 == IF t1[h].vruntime < min_vr - 1 * VScale
              THEN [t1 EXCEPT ![h].vruntime = min_vr - 1 * VScale]
              ELSE t1
    IN  /\ IF h # NULL /\ task[h].state = "BLOCKED"
           THEN \E m1 \in {heap_insert([task |-> t2, heap |-> heap], h)} :
                task' = m1.task /\ heap' = m1.heap
           ELSE UNCHANGED <<task, heap>>
        /\ UNCHANGED <<all_tasks, cgroups, cpu_queues, ran>>
        /\ EventFrame(e, 0)

TaskUnblock == nevents < MaxEvents /\ \E id \in EventIds : DoTaskUnblock(TaskEvent("TASK_UNBLOCK", id))

DoTaskYield(e) ==
    LET h == scheduler_find_task(task, all_tasks, e.task_id)
        t1 == [task EXCEPT ![h].vruntime = get_max_vruntime(task, all_tasks)]
    IN  /\ IF h # NULL
           THEN \E m1 \in {IF t1[h].heap_index >= 0
                            THEN heap_update([task |-> t1, heap |-> heap], h)
                            ELSE [task |-> t1, heap |-> heap]} :
                task' = m1.task /\ heap' = m1.heap
           ELSE UNCHANGED <<task, heap>>
        /\ UNCHANGED <<all_tasks, cgroups, cpu_queues, ran>>
        /\ EventFrame(e, 0)

TaskYield == nevents < MaxEvents /\ \E id \in EventIds : DoTaskYield(TaskEvent("TASK_YIELD", id))

DoTaskSetNice(e) ==
    LET h == scheduler_find_task(task, all_tasks, e.task_id)
    IN  /\ IF h # NULL
           THEN task' = [task EXCEPT ![h] = task_set_nice(@, e.nice)]
           ELSE UNCHANGED task
        /\ UNCHANGED <<heap, all_tasks, cgroups, cpu_queues, ran>>
        /\ EventFrame(e, 0)

TaskSetNice ==
    nevents < MaxEvents /\ \E id \in EventIds, n \in NiceVals :
        DoTaskSetNice([TaskEvent("TASK_SETNICE", id) EXCEPT
                         !.nice = n, !.has_nice = TRUE])

DoTaskSetAffinity(e) ==
    LET h == scheduler_find_task(task, all_tasks, e.task_id)
    IN  /\ IF h # NULL
           THEN task' = [task EXCEPT ![h] = task_set_affinity(@, e.cpu_mask)]
           ELSE UNCHANGED task
        /\ UNCHANGED <<heap, all_tasks, cgroups, cpu_queues, ran>>
        /\ EventFrame(e, 0)

TaskSetAffinity ==
    nevents < MaxEvents /\ \E id \in EventIds, mk \in MaskVals :
        DoTaskSetAffinity([TaskEvent("TASK_SET_AFFINITY", id) EXCEPT
                             !.cpu_mask = mk, !.has_cpu_mask = TRUE])

DoCgroupCreate(e) ==
    LET shares == IF e.has_cpu_shares THEN e.cpu_shares ELSE DEFAULT_CPU_SHARES
        quota == IF e.has_cpu_quota THEN e.cpu_quota_us ELSE UNLIMITED_QUOTA
        period == IF e.has_cpu_period THEN e.cpu_period_us
                  ELSE DEFAULT_CPU_PERIOD_US
        cg == cgroup_create(e.cgroup_id, shares, quota, period, e.cpu_mask)
    IN  /\ Len(cgroups) < MaxCgroups
        /\ cgroups' = Append(cgroups,
                             [cg EXCEPT !.period_start_vtime = current_vtime])
        /\ UNCHANGED <<task, heap, all_tasks, cpu_queues, ran>>
        /\ EventFrame(e, 0)

CgroupCreate ==
    nevents < MaxEvents /\ \E id \in CgroupIds, f \in CgroupFields :
        DoCgroupCreate(CgroupEvent("CGROUP_CREATE", id, f))

DoCgroupModify(e) ==
    LET c == scheduler_find_cgroup(cgroups, e.cgroup_id)
        shares == IF e.has_cpu_shares THEN e.cpu_shares ELSE -1
        quota == IF e.has_cpu_quota THEN e.cpu_quota_us ELSE -2
        period == IF e.has_cpu_period THEN e.cpu_period_us ELSE -2
        c1 == cgroup_modify(cgroups[c], shares, quota, period,
                            IF e.has_cpu_mask THEN e.cpu_mask ELSE <<>>)
        c2 == IF e.has_cpu_period /\ e.cpu_period_us > 0
              THEN cgroup_reset_period(c1, current_vtime)
              ELSE c1
    IN  /\ IF c # NULL
           THEN cgroups' = [cgroups EXCEPT ![c] = c2]
           ELSE UNCHANGED cgroups
        /\ UNCHANGED <<task, heap, all_tasks, cpu_queues, ran>>
        /\ EventFrame(e, 0)

CgroupModify ==
    nevents < MaxEvents /\ \E id \in CgroupIds, f \in CgroupFields :
        DoCgroupModify(CgroupEvent("CGROUP_MODIFY", id, f))

DoCgroupDelete(e) ==
    LET c == scheduler_find_cgroup(cgroups, e.cgroup_id)
    IN  /\ IF c # NULL
           THEN \E r \in {scheduler_remove_cgroup(task, cgroups, c)} :
                task' = r.task /\ cgroups' = r.cgroups
           ELSE UNCHANGED <<task, cgroups>>
        /\ UNCHANGED <<heap, all_tasks, cpu_queues, ran>>
        /\ EventFrame(e, 0)

CgroupDelete ==
    nevents < MaxEvents /\ \E id \in CgroupIds :
        DoCgroupDelete([BaseEvent("CGROUP_DELETE") EXCEPT !.cgroup_id = id])

\* a variant that also takes the moved task off its CPU
DoTaskMoveCgroup_OffCpu(e) ==
    LET h == scheduler_find_task(task, all_tasks, e.task_id)
    IN  /\ IF h # NULL
           THEN task' = [task EXCEPT ![h].cgroup_id = e.new_cgroup_id,
                                     ![h].current_cpu = -1]
           ELSE UNCHANGED task
        /\ cpu_queues' = [c \in DOMAIN cpu_queues |->
                            IF cpu_queues[c] = h THEN NULL ELSE cpu_queues[c]]
        /\ UNCHANGED <<heap, all_tasks, cgroups, ran>>
        /\ EventFrame(e, 0)

DoTaskMoveCgroup(e) ==
    LET h == scheduler_find_task(task, all_tasks, e.task_id)
    IN  /\ IF h # NULL
           THEN task' = [task EXCEPT ![h].cgroup_id = e.new_cgroup_id]
           ELSE UNCHANGED task
        /\ UNCHANGED <<heap, all_tasks, cgroups, cpu_queues, ran>>
        /\ EventFrame(e, 0)

TaskMoveCgroup ==
    nevents < MaxEvents /\ \E id \in EventIds, cid \in CgroupIds :
        DoTaskMoveCgroup([TaskEvent("TASK_MOVE_CGROUP", id) EXCEPT
                            !.new_cgroup_id = cid])

DoCpuBurst(e) ==
    LET h == scheduler_find_task(task, all_tasks, e.task_id)
    IN  /\ IF h # NULL
           THEN task' = [task EXCEPT ![h].is_burst = TRUE,
                                     ![h].burst_remaining = e.burst_duration]
           ELSE UNCHANGED task
        /\ UNCHANGED <<heap, all_tasks, cgroups, cpu_queues, ran>>
        /\ EventFrame(e, 0)

CpuBurst ==
    nevents < MaxEvents /\ \E id \in EventIds, d \in BurstVals :
        DoCpuBurst([TaskEvent("CPU_BURST", id) EXCEPT !.burst_duration = d])

\* the default case of the switch: an action that is none of the twelve
KnownActions ==
    {"TASK_CREATE", "TASK_EXIT", "TASK_BLOCK", "TASK_UNBLOCK", "TASK_YIELD",
     "TASK_SETNICE", "TASK_SET_AFFINITY", "CGROUP_CREATE", "CGROUP_MODIFY",
     "CGROUP_DELETE", "TASK_MOVE_CGROUP", "CPU_BURST"}

\* a variant that reports success
DoInvalidEvent_Accept(e) ==
    /\ UNCHANGED <<task, heap, all_tasks, cgroups, cpu_queues, ran>>
    /\ EventFrame(e, 0)

\* the default case: an action that is none of the known ones
DoInvalidEvent(e) ==
    /\ UNCHANGED <<task, heap, all_tasks, cgroups, cpu_queues, ran>>
    /\ EventFrame(e, -1)

InvalidEvent ==
    /\ nevents < MaxEvents
    /\ DoInvalidEvent(BaseEvent("INVALID"))

\* the switch on the action of the event
scheduler_process_event(e) ==
    \/ e.action = "TASK_CREATE" /\ DoTaskCreate(e)
    \/ e.action = "TASK_EXIT" /\ DoTaskExit(e)
    \/ e.action = "TASK_BLOCK" /\ DoTaskBlock(e)
    \/ e.action = "TASK_UNBLOCK" /\ DoTaskUnblock(e)
    \/ e.action = "TASK_YIELD" /\ DoTaskYield(e)
    \/ e.action = "TASK_SETNICE" /\ DoTaskSetNice(e)
    \/ e.action = "TASK_SET_AFFINITY" /\ DoTaskSetAffinity(e)
    \/ e.action = "CGROUP_CREATE" /\ DoCgroupCreate(e)
    \/ e.action = "CGROUP_MODIFY" /\ DoCgroupModify(e)
    \/ e.action = "CGROUP_DELETE" /\ DoCgroupDelete(e)
    \/ e.action = "TASK_MOVE_CGROUP" /\ DoTaskMoveCgroup(e)
    \/ e.action = "CPU_BURST" /\ DoCpuBurst(e)
    \/ e.action \notin KnownActions /\ DoInvalidEvent(e)

-----------------------------------------------------------------------------
(* scheduler_tick *)

\* a variant that never resets a period
refresh_cgroup_periods_Never(cgs, vtime, q) == cgs

\* a variant that resets a period only when it has elapsed, not when the
\* tick is earlier than the period's start
refresh_cgroup_periods_NoSkew(cgs, vtime, q) ==
    [i \in 1..Len(cgs) |->
        IF cgs[i].cpu_period_us > 0
           /\ (vtime - cgs[i].period_start_vtime) * q * 1000
                 >= cgs[i].cpu_period_us
        THEN cgroup_reset_period(cgs[i], vtime)
        ELSE cgs[i]]

refresh_cgroup_periods(cgs, vtime, q) ==
    LET tick_us == IF q * 1000 <= 0 THEN 1000 ELSE q * 1000
        refresh(cg) ==
            IF cg.cpu_period_us <= 0 THEN cg
            ELSE IF vtime < cg.period_start_vtime
                 THEN cgroup_reset_period(cg, vtime)
                 ELSE IF (vtime - cg.period_start_vtime) * tick_us
                            >= cg.cpu_period_us
                      THEN cgroup_reset_period(cg, vtime)
                      ELSE cg
    IN  [i \in 1..Len(cgs) |-> refresh(cgs[i])]

\* a variant of the accounting body that charges vruntime during a burst too
AccountCpu_ChargeBurst(s, slots, q, i) ==
    LET current == slots[i]
        t == s.task[current]
        t1 == [t EXCEPT !.vruntime = @ + calc_vruntime_delta(
                            q, get_effective_task_weight(s.cgroups, t))]
        c == IF t.cgroup_id = "" THEN NULL
             ELSE scheduler_find_cgroup(s.cgroups, t.cgroup_id)
        cgs1 == IF c # NULL
                THEN [s.cgroups EXCEPT ![c] = cgroup_account_runtime(@, q * 1000)]
                ELSE s.cgroups
        t2 == IF t1.is_burst /\ t1.burst_remaining > 0
              THEN [t1 EXCEPT !.burst_remaining = @ - 1,
                              !.is_burst = (t1.burst_remaining - 1 # 0)]
              ELSE t1
        t3 == [t2 EXCEPT !.state = "RUNNABLE"]
    IN  IF current # NULL /\ t.state = "RUNNING"
        THEN [task |-> [s.task EXCEPT ![current] = t3], cgroups |-> cgs1]
        ELSE s

\* the body of the accounting loop for one CPU; s = [task, cgroups]
AccountCpu(s, slots, q, i) ==
    LET current == slots[i]
        t == s.task[current]
        t1 == IF ~t.is_burst
              THEN [t EXCEPT !.vruntime = @ + calc_vruntime_delta(
                                  q, get_effective_task_weight(s.cgroups, t))]
              ELSE t
        c == IF t.cgroup_id = "" THEN NULL
             ELSE scheduler_find_cgroup(s.cgroups, t.cgroup_id)
        cgs1 == IF c # NULL
                THEN [s.cgroups EXCEPT ![c] = cgroup_account_runtime(@, q * 1000)]
                ELSE s.cgroups
        t2 == IF t1.is_burst /\ t1.burst_remaining > 0
              THEN [t1 EXCEPT !.burst_remaining = @ - 1,
                              !.is_burst = (t1.burst_remaining - 1 # 0)]
              ELSE t1
        t3 == [t2 EXCEPT !.state = "RUNNABLE"]
    IN  IF current # NULL /\ t.state = "RUNNING"
        THEN [task |-> [s.task EXCEPT ![current] = t3], cgroups |-> cgs1]
        ELSE s

RECURSIVE AccountLoop(_, _, _, _, _)
AccountLoop(s, slots, q, i, n) ==
    IF i >= n THEN s
    ELSE AccountLoop(AccountCpu(s, slots, q, i), slots, q, i + 1, n)

\* the state after the prologue and the accounting loop: [task, cgroups]
AfterAccounting(tsk, cgs, slots, q, vtime, n) ==
    AccountLoop([task |-> tsk, cgroups |-> refresh_cgroup_periods(cgs, vtime, q)],
                slots, q, 0, n)

RECURSIVE RebuildLoop(_, _, _)
RebuildLoop(m, order, i) ==
    IF i > Len(order) THEN m
    ELSE LET h == order[i]
             m1 == [m EXCEPT !.task[h].heap_index = -1]
         IN  RebuildLoop(IF m1.task[h].state = "RUNNABLE"
                         THEN heap_insert(m1, h) ELSE m1,
                         order, i + 1)

\* a variant that inserts the tasks in the order of their addresses
rebuild_runnable_heap_ByAddress(tsk, order) ==
    RebuildLoop([task |-> tsk, heap |-> <<>>],
                SortSeq(order, LAMBDA a, b : a < b), 1)

rebuild_runnable_heap(tsk, order) ==
    RebuildLoop([task |-> tsk, heap |-> <<>>], order, 1)

\* a variant that forgets what earlier CPUs of this tick were given
get_planned_runtime_for_cgroup_Zero(planned, c) == 0

get_planned_runtime_for_cgroup(planned, c) == planned[c]

\* a variant that records nothing
add_planned_runtime_for_cgroup_Skip(planned, c, delta_us) == planned

add_planned_runtime_for_cgroup(planned, c, delta_us) ==
    [planned EXCEPT ![c] = @ + delta_us]

\* whether the quota filters of pick_task_for_cpu let the candidate through
QuotaAdmits(cgs, planned, t, tick_runtime_us) ==
    LET c == IF t.cgroup_id = "" THEN NULL
             ELSE scheduler_find_cgroup(cgs, t.cgroup_id)
    IN  \/ c = NULL
        \/ /\ cgroup_has_quota(cgs[c])
           /\ \/ cgs[c].cpu_quota_us < 0
              \/ cgs[c].quota_used + get_planned_runtime_for_cgroup(planned, c)
                    + tick_runtime_us <= cgs[c].cpu_quota_us

\* the test of one extracted candidate x = [m, min]
RECURSIVE PickLoop(_, _, _, _, _, _)
PickTest(x, deferred, cgs, cpu, planned, tick_runtime_us) ==
    IF /\ can_task_run_on_cpu(cgs, x.m.task[x.min], cpu)
       /\ QuotaAdmits(cgs, planned, x.m.task[x.min], tick_runtime_us)
    THEN [m |-> x.m, deferred |-> deferred, selected |-> x.min]
    ELSE PickLoop(x.m, Append(deferred, x.min), cgs, cpu, planned,
                  tick_runtime_us)

\* the extraction loop: [m, deferred, selected]
PickLoop(m, deferred, cgs, cpu, planned, tick_runtime_us) ==
    IF Len(m.heap) = 0 THEN [m |-> m, deferred |-> deferred, selected |-> NULL]
    ELSE PickTest(heap_extract_min(m), deferred, cgs, cpu, planned,
                  tick_runtime_us)

RECURSIVE ReinsertLoop(_, _, _)
ReinsertLoop(m, deferred, i) ==
    IF i > Len(deferred) THEN m
    ELSE ReinsertLoop(heap_insert(m, deferred[i]), deferred, i + 1)

\* the planned tally after sel was selected: [m, selected, planned]
PlanSelected(m, sel, cgs, planned, tick_runtime_us) ==
    LET c == IF sel = NULL \/ m.task[sel].cgroup_id = "" THEN NULL
             ELSE scheduler_find_cgroup(cgs, m.task[sel].cgroup_id)
    IN  [m |-> m, selected |-> sel,
         planned |-> IF c # NULL /\ cgs[c].cpu_quota_us >= 0
                     THEN add_planned_runtime_for_cgroup(planned, c,
                                                         tick_runtime_us)
                     ELSE planned]

\* the deferred candidates go back into the heap
PickFinish(p, cgs, planned, tick_runtime_us) ==
    PlanSelected(ReinsertLoop(p.m, p.deferred, 1), p.selected, cgs, planned,
                 tick_runtime_us)

\* a variant that takes the root of the heap whatever the filters say
pick_task_for_cpu_First(m, cgs, cpu, planned, tick_runtime_us) ==
    PlanSelected(heap_extract_min(m).m, heap_extract_min(m).min, cgs, planned,
                 tick_runtime_us)

\* [m, selected, planned]
\* a variant that tests the heap minimum only and leaves the CPU idle when
\* that task is rejected
pick_task_for_cpu_GiveUp(m, cgs, cpu, planned, tick_runtime_us) ==
    IF Len(m.heap) = 0 THEN PlanSelected(m, NULL, cgs, planned, tick_runtime_us)
    ELSE LET x == heap_extract_min(m)
         IN  IF /\ can_task_run_on_cpu(cgs, x.m.task[x.min], cpu)
                /\ QuotaAdmits(cgs, planned, x.m.task[x.min], tick_runtime_us)
             THEN PlanSelected(x.m, x.min, cgs, planned, tick_runtime_us)
             ELSE PlanSelected(m, NULL, cgs, planned, tick_runtime_us)

pick_task_for_cpu(m, cgs, cpu, planned, tick_runtime_us) ==
    PickFinish(PickLoop(m, <<>>, cgs, cpu, planned, tick_runtime_us),
               cgs, planned, tick_runtime_us)

\* a variant that counts a preemption whenever the CPU had a task before
AssignCpu_CountIdle(s, p, previous, cpu) ==
    IF p.selected # NULL
    THEN [m |-> [task |-> [p.m.task EXCEPT ![p.selected].current_cpu = cpu,
                                           ![p.selected].state = "RUNNING"],
                 heap |-> p.m.heap],
          slots |-> [s.slots EXCEPT ![cpu] = p.selected],
          planned |-> p.planned,
          assigned |-> s.assigned \cup {p.selected},
          preemptions |-> s.preemptions + (IF previous # NULL THEN 1 ELSE 0),
          migrations |-> s.migrations,
          schedule |-> Append(s.schedule, p.m.task[p.selected].task_id)]
    ELSE [s EXCEPT !.m = p.m, !.planned = p.planned,
                   !.preemptions = @ + (IF previous # NULL THEN 1 ELSE 0),
                   !.schedule = Append(s.schedule, "idle")]

\* what the selection loop does with the pick p for one CPU
AssignCpu(s, p, previous, cpu) ==
    LET best == p.selected
        preempt == previous # NULL /\ previous # best
        tk1 == IF preempt /\ p.m.task[previous].state = "RUNNING"
               THEN [p.m.task EXCEPT ![previous].state = "RUNNABLE"]
               ELSE p.m.task
        migrate == tk1[best].current_cpu >= 0 /\ tk1[best].current_cpu # cpu
    IN  IF best # NULL
        THEN [m |-> [task |-> [tk1 EXCEPT ![best].current_cpu = cpu,
                                          ![best].state = "RUNNING"],
                     heap |-> p.m.heap],
              slots |-> [s.slots EXCEPT ![cpu] = best],
              planned |-> p.planned,
              assigned |-> s.assigned \cup {best},
              preemptions |-> s.preemptions + (IF preempt THEN 1 ELSE 0),
              migrations |-> s.migrations + (IF migrate THEN 1 ELSE 0),
              schedule |-> Append(s.schedule, tk1[best].task_id)]
        ELSE [s EXCEPT !.m = p.m, !.planned = p.planned,
                       !.schedule = Append(s.schedule, "idle")]

\* the body of the selection loop for one CPU;
\* s = [m, slots, planned, assigned, preemptions, migrations, schedule]
ScheduleCpu(s, cgs, previous_tasks, cpu, tick_runtime_us) ==
    AssignCpu(s, pick_task_for_cpu(s.m, cgs, cpu, s.planned, tick_runtime_us),
              previous_tasks[cpu], cpu)

RECURSIVE ScheduleLoop(_, _, _, _, _, _)
ScheduleLoop(s, cgs, previous_tasks, cpu, n, tick_runtime_us) ==
    IF cpu >= n THEN s
    ELSE ScheduleLoop(ScheduleCpu(s, cgs, previous_tasks, cpu, tick_runtime_us),
                      cgs, previous_tasks, cpu + 1, n, tick_runtime_us)

\* the ids, in registry order, of the tasks whose state is in states
RECURSIVE IdsInStates(_, _, _, _)
IdsInStates(tsk, order, states, i) ==
    IF i > Len(order) THEN <<>>
    ELSE (IF tsk[order[i]].state \in states
          THEN <<tsk[order[i]].task_id>> ELSE <<>>)
         \o IdsInStates(tsk, order, states, i + 1)

\* a variant in which the tasks left out keep their CPU
ClearUnassigned_Keep(tsk, assigned) == tsk

\* the epilogue: tasks left Runnable lose their CPU
ClearUnassigned(tsk, assigned) ==
    [h \in DOMAIN tsk |->
        IF h \notin assigned /\ tsk[h].state = "RUNNABLE"
        THEN [tsk[h] EXCEPT !.current_cpu = -1]
        ELSE tsk[h]]

\* the SchedulerTick record and the state the tick leaves
TickRecord(cgs, s, tk, order, vtime, n) ==
    [task |-> tk, heap |-> s.m.heap, cgroups |-> cgs,
     slots |-> s.slots, assigned |-> s.assigned,
     preemptions |-> s.preemptions, migrations |-> s.migrations,
     tick |-> [vtime |-> vtime,
               cpu_count |-> n,
               schedule |-> s.schedule,
               meta |-> [preemptions |-> s.preemptions,
                         migrations |-> s.migrations,
                         runnable_tasks |->
                            IdsInStates(tk, order, {"RUNNABLE", "RUNNING"}, 1),
                         blocked_tasks |->
                            IdsInStates(tk, order, {"BLOCKED"}, 1)]]]

TickEpilogue(cgs, s, order, vtime, n) ==
    TickRecord(cgs, s, ClearUnassigned(s.m.task, s.assigned), order, vtime, n)

\* the rebuild and the selection loop, from the state a after accounting
TickSelect(a, order, slots, q, vtime, n) ==
    TickEpilogue(
        a.cgroups,
        ScheduleLoop([m |-> rebuild_runnable_heap(a.task, order),
                      slots |-> [c \in 0..(n - 1) |-> NULL],
                      planned |-> [c \in 1..Len(a.cgroups) |-> 0],
                      assigned |-> {},
                      preemptions |-> 0,
                      migrations |-> 0,
                      schedule |-> <<>>],
                     a.cgroups, slots, 0, n,
                     IF q * 1000 < 0 THEN 0 ELSE q * 1000),
        order, vtime, n)

\* everything scheduler_tick computes, from the state it starts in
TickResult(vtime) ==
    TickSelect(AfterAccounting(task, cgroups, cpu_queues, quanta, vtime,
                               cpu_count),
               all_tasks, cpu_queues, quanta, vtime, cpu_count)

DoTick(vtime) ==
    \E r \in {TickResult(vtime)} :
        /\ current_vtime' = vtime
        /\ task' = r.task
        /\ heap' = r.heap
        /\ cgroups' = r.cgroups
        /\ cpu_queues' = r.slots
        /\ preemptions' = r.preemptions
        /\ migrations' = r.migrations
        /\ tick' = r.tick
        /\ ran' = [h \in DOMAIN ran |->
                     IF h \in r.assigned THEN ran[h] + 1 ELSE ran[h]]
        /\ last' = "TICK"
        /\ arg' = ""
        /\ ev' = BaseEvent("TICK")
        /\ before' = [last |-> last, arg |-> arg, schedule |-> tick.schedule]
        /\ tf' = [tf EXCEPT !.done = TRUE]
        /\ nticks' = nticks + 1
        /\ replay' = Recorded(replay, BaseEvent("TICK"), vtime, <<r.tick>>)
        /\ UNCHANGED <<cpu_count, quanta, all_tasks, ret, nevents, rebound>>

\* the virtual times a producer sends: in order, or one step back
TickTimes ==
    IF nticks = 0 THEN {0}
    ELSE {current_vtime + 1} \cup {t \in {current_vtime - 1} : t >= 0}

Tick == \E vt \in TickTimes : nticks < MaxTicks /\ DoTick(vt)


-----------------------------------------------------------------------------
(* scheduler_init(2, 1), then any events and ticks *)

NoTick ==
    [vtime |-> 0, cpu_count |-> 0, schedule |-> <<>>,
     meta |-> [preemptions |-> 0, migrations |-> 0,
               runnable_tasks |-> <<>>, blocked_tasks |-> <<>>]]

\* no TimeFrame is being served
NoFrame ==
    [n |-> 0, vtime |-> 0, json |-> FALSE, raw |-> <<>>, applied |-> <<>>,
     done |-> TRUE]

scheduler_init(n, q) ==
    /\ cpu_count = n
    /\ quanta = (IF q > 0 THEN q ELSE 1)
    /\ current_vtime = 0
    /\ preemptions = 0
    /\ migrations = 0
    /\ task = <<>>
    /\ all_tasks = <<>>
    /\ cgroups = <<>>
    /\ heap = <<>>
    /\ cpu_queues = [c \in 0..(n - 1) |-> NULL]
    /\ tick = NoTick
    /\ ret = 0
    /\ last = "INIT"
    /\ arg = ""
    /\ ev = BaseEvent("INIT")
    /\ before = [last |-> "INIT", arg |-> "", schedule |-> <<>>]
    /\ tf = NoFrame
    /\ nevents = 0
    /\ nticks = 0
    /\ ran = <<>>
    /\ rebound = FALSE

Init == scheduler_init(2, 1) /\ replay = NoReplay

Next ==
    \/ TaskCreate
    \/ TaskExit
    \/ TaskBlock
    \/ TaskUnblock
    \/ TaskYield
    \/ TaskSetNice
    \/ TaskSetAffinity
    \/ CgroupCreate
    \/ CgroupModify
    \/ CgroupDelete
    \/ TaskMoveCgroup
    \/ CpuBurst
    \/ InvalidEvent
    \/ Tick

Spec == Init /\ [][Next]_vars

-----------------------------------------------------------------------------
(* Two tasks of equal nice in one cgroup on one CPU, created before the    *)
(* first tick; then ticks only                                             *)

InitFair == scheduler_init(1, 1) /\ replay = NoReplay

FairCreate ==
    \E id \in TaskIds, f \in TaskCreateFields :
        /\ nticks = 0
        /\ Len(all_tasks) < 2
        /\ \A h \in DOMAIN task :
              /\ task[h].task_id # id
              /\ task[h].nice = (IF f.has_nice THEN f.nice ELSE 0)
              /\ task[h].cgroup_id = (IF f.cgroup_id = "" THEN "0"
                                      ELSE f.cgroup_id)
        /\ ~f.has_cpu_mask
        /\ DoTaskCreate([TaskEvent("TASK_CREATE", id) EXCEPT
                            !.has_nice = f.has_nice, !.nice = f.nice,
                            !.cgroup_id = f.cgroup_id])

FairTick ==
    /\ Len(all_tasks) = 2
    /\ nticks < MaxTicksFair
    /\ \E vt \in TickTimes : DoTick(vt)

NextFair ==
    \/ FairCreate
    \/ FairTick

SpecFair == InitFair /\ [][NextFair]_vars

-----------------------------------------------------------------------------
(* Cgroups H (shares 4096) and L (shares 128), unlimited quota, one task   *)
(* of nice 0 in each, on one CPU, set up in any order before the first     *)
(* tick; then ticks only                                                   *)

InitShares == scheduler_init(1, 1) /\ replay = NoReplay

SharesSetup == { [task_id |-> "T1", cgroup_id |-> "H", cpu_shares |-> 4096],
                 [task_id |-> "T2", cgroup_id |-> "L", cpu_shares |-> 128] }

SharesCgroup ==
    \E x \in SharesSetup :
        /\ nticks = 0
        /\ \A i \in 1..Len(cgroups) : cgroups[i].cgroup_id # x.cgroup_id
        /\ DoCgroupCreate([BaseEvent("CGROUP_CREATE") EXCEPT
                              !.cgroup_id = x.cgroup_id,
                              !.has_cpu_shares = TRUE,
                              !.cpu_shares = x.cpu_shares])

SharesTask ==
    \E x \in SharesSetup :
        /\ nticks = 0
        /\ \A h \in DOMAIN task : task[h].task_id # x.task_id
        /\ DoTaskCreate([TaskEvent("TASK_CREATE", x.task_id) EXCEPT
                            !.cgroup_id = x.cgroup_id])

SharesTick ==
    /\ Len(all_tasks) = 2
    /\ Len(cgroups) = 2
    /\ nticks < MaxTicksShares
    /\ \E vt \in TickTimes : DoTick(vt)

NextShares ==
    \/ SharesCgroup
    \/ SharesTask
    \/ SharesTick

SpecShares == InitShares /\ [][NextShares]_vars

-----------------------------------------------------------------------------
(* Task life cycle on one or two CPUs: creations (nice 0 or 19), exits,    *)
(* blocks, unblocks, yields, bursts (of any integer duration) and ticks,    *)
(* no cgroup records                                                       *)

LifeBurstVals == {-1, 0, 1}

InitLife == \E n \in {1, 2} : scheduler_init(n, 1) /\ replay = NoReplay

LifeCreate ==
    /\ nevents < MaxLifeEvents
    /\ \E id \in CreateIds, n \in {0, 19} :
          DoTaskCreate([TaskEvent("TASK_CREATE", id) EXCEPT
                           !.has_nice = (n # 0), !.nice = n])

LifeExit ==
    /\ nevents < MaxLifeEvents
    /\ \E id \in EventIds : DoTaskExit(TaskEvent("TASK_EXIT", id))

LifeBlock ==
    /\ nevents < MaxLifeEvents
    /\ \E id \in EventIds : DoTaskBlock(TaskEvent("TASK_BLOCK", id))

LifeUnblock ==
    /\ nevents < MaxLifeEvents
    /\ \E id \in EventIds : DoTaskUnblock(TaskEvent("TASK_UNBLOCK", id))

LifeYield ==
    /\ nevents < MaxLifeEvents
    /\ \E id \in EventIds : DoTaskYield(TaskEvent("TASK_YIELD", id))

LifeBurst ==
    /\ nevents < MaxLifeEvents
    /\ \E id \in EventIds, d \in LifeBurstVals :
          DoCpuBurst([TaskEvent("CPU_BURST", id) EXCEPT !.burst_duration = d])

NextLife ==
    \/ LifeCreate
    \/ LifeExit
    \/ LifeBlock
    \/ LifeUnblock
    \/ LifeYield
    \/ LifeBurst
    \/ Tick

SpecLife == InitLife /\ [][NextLife]_vars

(* Quota throttling with a quantum of 50 ms on one CPU                     *)
(* (test_cgroup_quota_enforcement): cgroup "A" with a quota and a period,  *)
(* tasks in "A", ticks in order or one step back                           *)

InitQuota == scheduler_init(1, 50) /\ replay = NoReplay

QuotaCgroup ==
    /\ nevents < MaxQuotaEvents
    /\ \E qt \in {50000, 100000}, pd \in {100000, 150000} :
          DoCgroupCreate([BaseEvent("CGROUP_CREATE") EXCEPT
                             !.cgroup_id = "A",
                             !.has_cpu_quota = TRUE, !.cpu_quota_us = qt,
                             !.has_cpu_period = TRUE, !.cpu_period_us = pd])

QuotaTask ==
    /\ nevents < MaxQuotaEvents
    /\ \E id \in CreateIds :
          DoTaskCreate([TaskEvent("TASK_CREATE", id) EXCEPT !.cgroup_id = "A"])

QuotaTick == \E vt \in TickTimes : nticks < MaxTicksQuota /\ DoTick(vt)

NextQuota ==
    \/ QuotaCgroup
    \/ QuotaTask
    \/ QuotaTick

SpecQuota == InitQuota /\ [][NextQuota]_vars

-----------------------------------------------------------------------------
(* The main loop: a TimeFrame is received, as JSON (main) or as Event      *)
(* structures handed to the same loop by a caller of the library; its      *)
(* events are processed in array order, then the tick of its vtime runs    *)
(* and the decision is sent                                                *)

\* the events TimeFrames are made of, one of each kind and one whose action
\* is not a known one
FrameAlphabet ==
    { TaskEvent("TASK_CREATE", "T1"),
      [TaskEvent("TASK_CREATE", "T2") EXCEPT !.has_nice = TRUE, !.nice = 19],
      TaskEvent("TASK_EXIT", "T1"),
      TaskEvent("TASK_BLOCK", "T1"),
      TaskEvent("TASK_UNBLOCK", "T1"),
      TaskEvent("TASK_YIELD", "T1"),
      [TaskEvent("TASK_SETNICE", "T1") EXCEPT !.has_nice = TRUE, !.nice = 19],
      [TaskEvent("TASK_SET_AFFINITY", "T2") EXCEPT
          !.has_cpu_mask = TRUE, !.cpu_mask = <<0>>],
      [BaseEvent("CGROUP_CREATE") EXCEPT !.cgroup_id = "A"],
      [BaseEvent("CGROUP_MODIFY") EXCEPT !.cgroup_id = "A",
          !.has_cpu_shares = TRUE, !.cpu_shares = 128],
      [BaseEvent("CGROUP_DELETE") EXCEPT !.cgroup_id = "A"],
      [TaskEvent("TASK_MOVE_CGROUP", "T1") EXCEPT !.new_cgroup_id = "A"],
      [TaskEvent("CPU_BURST", "T2") EXCEPT !.burst_duration = 1],
      TaskEvent("INVALID", "T1") }

RawFrames ==
    UNION {[1..k -> FrameAlphabet] : k \in 0..MaxFrameLen}

\* parse_event returns no event for an action json_parse_action does not
\* know, and json_parse_timeframe keeps the events that parse_event returns
json_parse_events(raw) ==
    LET Parsed(e) == e.action \in KnownActions
    IN  SelectSeq(raw, Parsed)

\* TimeFrame.events of the frame being served
FrameEvents ==
    IF tf.json THEN json_parse_events(tf.raw) ELSE tf.raw

InitBatch == \E n \in {1, 2} : scheduler_init(n, 1) /\ replay = NoReplay

FrameReceive ==
    /\ tf.done
    /\ tf.n < MaxFrames
    /\ \E vt \in TickTimes, raw \in RawFrames, js \in BOOLEAN :
          tf' = [n |-> tf.n + 1, vtime |-> vt, json |-> js, raw |-> raw,
                 applied |-> <<>>, done |-> FALSE]
    /\ UNCHANGED <<cpu_count, quanta, current_vtime, preemptions, migrations,
                   task, all_tasks, cgroups, heap, cpu_queues, tick, ret, last,
                   arg, ev, before, nevents, nticks, ran, rebound, replay>>

FrameEvent ==
    /\ ~tf.done
    /\ Len(tf.applied) < Len(FrameEvents)
    /\ scheduler_process_event(FrameEvents[Len(tf.applied) + 1])

\* a variant that does not wait for the events of the frame
FrameTick_Early ==
    /\ ~tf.done
    /\ DoTick(tf.vtime)

FrameTick ==
    /\ ~tf.done
    /\ Len(tf.applied) = Len(FrameEvents)
    /\ DoTick(tf.vtime)

NextBatch ==
    \/ FrameReceive
    \/ FrameEvent
    \/ FrameTick

SpecBatch == InitBatch /\ [][NextBatch]_vars

-----------------------------------------------------------------------------
(* Two scheduler instances with the same CPU count and quantum that get    *)
(* the same calls: the first gets any events and ticks, then the second is *)
(* constructed and given the calls the first one got, in the same order    *)

InitReplay ==
    /\ \E n \in {1, 2} : scheduler_init(n, 1)
    /\ replay = [NoReplay EXCEPT !.phase = 1]

ReplayEvent ==
    /\ replay.phase = 1
    /\ Len(replay.inputs) < MaxInputs
    /\ \E e \in FrameAlphabet : scheduler_process_event(e)

ReplayTick ==
    /\ replay.phase = 1
    /\ Len(replay.inputs) < MaxInputs
    /\ \E vt \in TickTimes : DoTick(vt)

\* scheduler_init of the second instance
ReplayInit ==
    /\ replay.phase = 1
    /\ replay.inputs # <<>>
    /\ replay' = [replay EXCEPT !.phase = 2]
    /\ current_vtime' = 0
    /\ preemptions' = 0
    /\ migrations' = 0
    /\ task' = <<>>
    /\ all_tasks' = <<>>
    /\ cgroups' = <<>>
    /\ heap' = <<>>
    /\ cpu_queues' = [c \in 0..(cpu_count - 1) |-> NULL]
    /\ tick' = NoTick
    /\ ret' = 0
    /\ last' = "INIT"
    /\ arg' = ""
    /\ ev' = BaseEvent("INIT")
    /\ before' = [last |-> "INIT", arg |-> "", schedule |-> <<>>]
    /\ tf' = NoFrame
    /\ nevents' = 0
    /\ nticks' = 0
    /\ ran' = <<>>
    /\ rebound' = FALSE
    /\ UNCHANGED <<cpu_count, quanta>>

\* the second instance gets the next call the first one got
ReplayCall ==
    /\ replay.phase = 2
    /\ replay.pos < Len(replay.inputs)
    /\ \E i \in {replay.inputs[replay.pos + 1]} :
          IF i.e.action = "TICK" THEN DoTick(i.vtime)
          ELSE scheduler_process_event(i.e)

NextReplay ==
    \/ ReplayEvent
    \/ ReplayTick
    \/ ReplayInit
    \/ ReplayCall

SpecReplay == InitReplay /\ [][NextReplay]_vars

-----------------------------------------------------------------------------
(* The heap alone, as test_heap.c drives it: tasks made by task_create,    *)
(* given a vruntime and inserted; extract, peek, remove of any task,       *)
(* enqueued or not; a new vruntime followed by heap_update                 *)

HeapIds == <<"T1", "T2", "T3", "T4", "T5", "T6">>

InitHeap ==
    /\ scheduler_init(1, 1)
    /\ replay = NoReplay

\* what a heap operation leaves alone, and the bookkeeping of the call:
\* ret is what the call returned, a task or a return code
HeapFrame(op, id, r) ==
    /\ last' = op
    /\ arg' = id
    /\ ret' = r
    /\ UNCHANGED <<cpu_count, quanta, current_vtime, preemptions, migrations,
                   all_tasks, cgroups, cpu_queues, tick, ev, before, tf,
                   nevents, nticks, ran, rebound, replay>>

HeapCreate ==
    /\ Len(task) < Len(HeapIds)
    /\ task' = Append(task, task_create(HeapIds[Len(task) + 1], 0, NullStr))
    /\ UNCHANGED heap
    /\ HeapFrame("CREATE", "", 0)

HeapInsert ==
    \E h \in DOMAIN task, v \in HeapVruntimes :
       /\ task[h].heap_index = -1
       /\ \E m \in {heap_insert([task |-> [task EXCEPT ![h].vruntime = v],
                                 heap |-> heap], h)} :
             /\ task' = m.task
             /\ heap' = m.heap
       /\ HeapFrame("INSERT", "", 0)

HeapExtractMin ==
    \E r \in {heap_extract_min(M)} :
       /\ task' = r.m.task
       /\ heap' = r.m.heap
       /\ HeapFrame("EXTRACT", "", r.min)

HeapPeek ==
    /\ UNCHANGED <<task, heap>>
    /\ HeapFrame("PEEK", "", heap_peek(M))

HeapRemove ==
    \E h \in DOMAIN task :
       \E r \in {heap_remove(M, h)} :
          /\ task' = r.m.task
          /\ heap' = r.m.heap
          /\ HeapFrame("REMOVE", task[h].task_id, r.rc)

HeapUpdate ==
    \E h \in DOMAIN task, v \in HeapVruntimes :
       /\ task[h].heap_index >= 0
       /\ v # task[h].vruntime
       /\ \E m \in {heap_update([task |-> [task EXCEPT ![h].vruntime = v],
                                 heap |-> heap], h)} :
             /\ task' = m.task
             /\ heap' = m.heap
       /\ HeapFrame("UPDATE", "", 0)

NextHeap ==
    \/ HeapCreate
    \/ HeapInsert
    \/ HeapExtractMin
    \/ HeapPeek
    \/ HeapRemove
    \/ HeapUpdate

SpecHeap == InitHeap /\ [][NextHeap]_vars

-----------------------------------------------------------------------------
(* Events that carry values at and beyond the limits: nice values around   *)
(* NICE_MIN and NICE_MAX, shares and periods around 0                      *)

ClampNices == {-100, -21, -20, 19, 20, 100}

ClampValues == {-1, 0, 1, 2048}

InitClamp == scheduler_init(1, 1) /\ replay = NoReplay

ClampTaskCreate ==
    /\ nevents < MaxClampEvents
    /\ \E id \in CreateIds, n \in ClampNices :
          DoTaskCreate([TaskEvent("TASK_CREATE", id) EXCEPT
                           !.has_nice = TRUE, !.nice = n])

ClampSetNice ==
    /\ nevents < MaxClampEvents
    /\ \E id \in EventIds, n \in ClampNices :
          DoTaskSetNice([TaskEvent("TASK_SETNICE", id) EXCEPT
                            !.has_nice = TRUE, !.nice = n])

\* a cgroup event for "A" that carries the shares, the period, or both
ClampEvent(a, sh, pe, hs, hp) ==
    [BaseEvent(a) EXCEPT !.cgroup_id = "A",
                         !.has_cpu_shares = hs, !.cpu_shares = sh,
                         !.has_cpu_period = hp, !.cpu_period_us = pe]

ClampCgroupCreate ==
    /\ nevents < MaxClampEvents
    /\ \E sh \in ClampValues, pe \in ClampValues, hs \in BOOLEAN, hp \in BOOLEAN :
          /\ (hs \/ sh = 0) /\ (hp \/ pe = 0)
          /\ DoCgroupCreate(ClampEvent("CGROUP_CREATE", sh, pe, hs, hp))

ClampCgroupModify ==
    /\ nevents < MaxClampEvents
    /\ \E sh \in ClampValues, pe \in ClampValues, hs \in BOOLEAN, hp \in BOOLEAN :
          /\ (hs \/ sh = 0) /\ (hp \/ pe = 0)
          /\ DoCgroupModify(ClampEvent("CGROUP_MODIFY", sh, pe, hs, hp))

NextClamp ==
    \/ ClampTaskCreate
    \/ ClampSetNice
    \/ ClampCgroupCreate
    \/ ClampCgroupModify

SpecClamp == InitClamp /\ [][NextClamp]_vars

-----------------------------------------------------------------------------
(* Tasks of one cgroup whose quota is set and changed, with CPU bursts:    *)
(* the quota is 0, two ticks, or unlimited                                 *)

BurstQuotas == {0, 2000, -1}

InitBurst == (\E n \in {1, 2} : scheduler_init(n, 1)) /\ replay = NoReplay

\* a cgroup event for "A" that carries the quota
BurstEvent(a, qt) ==
    [BaseEvent(a) EXCEPT !.cgroup_id = "A",
                         !.has_cpu_quota = TRUE, !.cpu_quota_us = qt]

BurstCgroupCreate ==
    /\ nevents < MaxBurstEvents
    /\ cgroups = <<>>
    /\ \E qt \in BurstQuotas : DoCgroupCreate(BurstEvent("CGROUP_CREATE", qt))

BurstCgroupModify ==
    /\ nevents < MaxBurstEvents
    /\ \E qt \in BurstQuotas : DoCgroupModify(BurstEvent("CGROUP_MODIFY", qt))

BurstTaskCreate ==
    /\ nevents < MaxBurstEvents
    /\ \E id \in TaskIds :
          /\ \A h \in DOMAIN task : task[h].task_id # id
          /\ DoTaskCreate([TaskEvent("TASK_CREATE", id) EXCEPT !.cgroup_id = "A"])

BurstCpuBurst ==
    /\ nevents < MaxBurstEvents
    /\ \E id \in EventIds, d \in BurstVals :
          DoCpuBurst([TaskEvent("CPU_BURST", id) EXCEPT !.burst_duration = d])

BurstTick == \E vt \in TickTimes : nticks < MaxBurstTicks /\ DoTick(vt)

NextBurst ==
    \/ BurstCgroupCreate
    \/ BurstCgroupModify
    \/ BurstTaskCreate
    \/ BurstCpuBurst
    \/ BurstTick

SpecBurst == InitBurst /\ [][NextBurst]_vars

-----------------------------------------------------------------------------
(* Tasks of a cgroup "A" that exists before them and keeps its quota of    *)
(* one or four ticks; its period of 100 ticks does not end.  Tasks block   *)
(* and unblock; no CgroupModify, no TaskMoveCgroup                         *)

BoundQuotas == {1000, 4000}

InitBound == (\E n \in {1, 2} : scheduler_init(n, 1)) /\ replay = NoReplay

BoundCgroupCreate ==
    /\ nevents < MaxBoundEvents
    /\ cgroups = <<>>
    /\ all_tasks = <<>>
    /\ \E qt \in BoundQuotas : DoCgroupCreate(BurstEvent("CGROUP_CREATE", qt))

BoundTaskCreate ==
    /\ nevents < MaxBoundEvents
    /\ cgroups # <<>>
    /\ \E id \in TaskIds, n \in {0, 19} :
          /\ \A h \in DOMAIN task : task[h].task_id # id
          /\ DoTaskCreate([TaskEvent("TASK_CREATE", id) EXCEPT
                              !.cgroup_id = "A",
                              !.has_nice = (n # 0), !.nice = n])

BoundBlock ==
    /\ nevents < MaxBoundEvents
    /\ \E id \in EventIds : DoTaskBlock(TaskEvent("TASK_BLOCK", id))

BoundUnblock ==
    /\ nevents < MaxBoundEvents
    /\ \E id \in EventIds : DoTaskUnblock(TaskEvent("TASK_UNBLOCK", id))

BoundTick == \E vt \in TickTimes : nticks < MaxBoundTicks /\ DoTick(vt)

NextBound ==
    \/ BoundCgroupCreate
    \/ BoundTaskCreate
    \/ BoundBlock
    \/ BoundUnblock
    \/ BoundTick

SpecBound == InitBound /\ [][NextBound]_vars

-----------------------------------------------------------------------------
(* Events stop and ticks go on: one or two tasks of nice 0 in cgroup "A",  *)
(* pinned to CPU 1 or free, "A" without a record or with a period of one   *)
(* tick and a quota of half a tick, one tick, or unlimited; after the      *)
(* first tick only ticks, of strictly increasing time                      *)

StarveQuotas == {500, 1000, -1}

StarveAffinities == {<<>>, <<1>>}

InitStarve == (\E n \in {1, 2} : scheduler_init(n, 1)) /\ replay = NoReplay

StarveCgroupCreate ==
    /\ nticks = 0
    /\ cgroups = <<>>
    /\ \E qt \in StarveQuotas :
          DoCgroupCreate([BurstEvent("CGROUP_CREATE", qt) EXCEPT
                             !.has_cpu_period = TRUE, !.cpu_period_us = 1000])

StarveTaskCreate ==
    /\ nticks = 0
    /\ \E id \in TaskIds, aff \in StarveAffinities :
          /\ \A h \in DOMAIN task : task[h].task_id # id
          /\ DoTaskCreate([TaskEvent("TASK_CREATE", id) EXCEPT
                              !.cgroup_id = "A",
                              !.has_cpu_mask = (aff # <<>>), !.cpu_mask = aff])

\* a tick can run: there is a task and the bound on ticks is not reached
StarveReady == all_tasks # <<>> /\ nticks < MaxStarveTicks

StarveTick ==
    /\ StarveReady
    /\ DoTick(IF nticks = 0 THEN 0 ELSE current_vtime + 1)

NextStarve ==
    \/ StarveCgroupCreate
    \/ StarveTaskCreate
    \/ StarveTick

\* main serves one tick per TimeFrame for as long as frames arrive
\* (the steps that count a tick are exactly the StarveTick steps)
SpecStarve ==
    /\ InitStarve
    /\ [][NextStarve]_vars
    /\ WF_nticks(StarveReady /\ nticks' = nticks + 1)

-----------------------------------------------------------------------------
(* One CPU, a quantum of 1 or 2 ms, one task, the only member of cgroup    *)
(* "A" whose quota is at least its period and at least a tick; then ticks  *)
(* of strictly increasing time, the next or the one after                  *)

FullQuotas == {1000, 2000, 3000, 4000}

FullPeriods == {1000, 2000}

InitFull == (\E q \in {1, 2} : scheduler_init(1, q)) /\ replay = NoReplay

FullCgroupCreate ==
    /\ nticks = 0
    /\ cgroups = <<>>
    /\ \E qt \in FullQuotas, pe \in FullPeriods :
          /\ qt >= pe
          /\ qt >= quanta * 1000
          /\ DoCgroupCreate([BurstEvent("CGROUP_CREATE", qt) EXCEPT
                                !.has_cpu_period = TRUE, !.cpu_period_us = pe])

FullTaskCreate ==
    /\ nticks = 0
    /\ all_tasks = <<>>
    /\ DoTaskCreate([TaskEvent("TASK_CREATE", "T1") EXCEPT !.cgroup_id = "A"])

FullTick ==
    /\ all_tasks # <<>>
    /\ cgroups # <<>>
    /\ nticks < MaxFullTicks
    /\ \E vt \in (IF nticks = 0 THEN {0}
                  ELSE {current_vtime + 1, current_vtime + 2}) : DoTick(vt)

NextFull ==
    \/ FullCgroupCreate
    \/ FullTaskCreate
    \/ FullTick

SpecFull == InitFull /\ [][NextFull]_vars

-----------------------------------------------------------------------------
(* Properties *)

\* every vruntime delta the model computes is a whole number of 1/VScale
DeltaExact ==
    \A h \in DOMAIN task :
        (quanta * NICE_0_WEIGHT * VScale)
            % get_effective_task_weight(cgroups, task[h]) = 0

\* the task is where its heap_index says, in the runnable heap
InHeap(h) ==
    /\ task[h].heap_index >= 0
    /\ task[h].heap_index < Len(heap)
    /\ At(heap, task[h].heap_index) = h

\* the cgroup record the code finds for the task: the first with its id
RecordOf(h) ==
    LET hits == {i \in 1..Len(cgroups) :
                    cgroups[i].cgroup_id = task[h].cgroup_id}
    IN  IF hits = {} THEN NULL
        ELSE CHOOSE i \in hits : \A j \in hits : i <= j

\* the tasks whose runtime is charged to cgroup record i
Members(i) == {h \in DOMAIN task : RecordOf(h) = i}

\* the CPUs whose slot holds a task charged to cgroup record i
CpusGiven(i) ==
    {c \in Cpus : cpu_queues[c] # NULL /\ cpu_queues[c] \in Members(i)}

TickUs == quanta * 1000

\* max(1, floor(weight * shares / 1024)), the weight alone without a record
EffectiveWeight(h) ==
    LET w == IF RecordOf(h) = NULL THEN task[h].weight
             ELSE (task[h].weight * cgroups[RecordOf(h)].cpu_shares) \div 1024
    IN  IF w < 1 THEN 1 ELSE w

\* whether the task may run on the CPU: its affinity and its cgroup's mask
Allowed(h, c) ==
    /\ \/ task[h].cpu_affinity = <<>>
       \/ c \in SeqToSet(task[h].cpu_affinity)
    /\ \/ RecordOf(h) = NULL
       \/ cgroups[RecordOf(h)].cpu_mask = <<>>
       \/ c \in SeqToSet(cgroups[RecordOf(h)].cpu_mask)

\* C1: after every event and every tick, a task of the registry is in the
\* runnable heap (heap_index >= 0 and heap.tasks[heap_index] is the task)
\* if and only if its state is Runnable
C1_QueueMembership ==
    \A h \in DOMAIN task : InHeap(h) <=> task[h].state = "RUNNABLE"

\* C2: at the end of every tick no task id is in two entries of the
\* schedule, unless both entries are "idle"
C2_ScheduleDistinct ==
    last = "TICK" =>
        \A i, j \in 1..Len(tick.schedule) :
            (i # j /\ tick.schedule[i] = tick.schedule[j])
                => tick.schedule[i] = "idle"

\* C3: at the end of every tick, a task assigned to CPU c has c in its
\* affinity (or affinity "any") and c in the mask of its cgroup (or the mask
\* is empty, or the cgroup has no record)
C3_AffinityRespect ==
    last = "TICK" =>
        \A c \in Cpus : cpu_queues[c] # NULL => Allowed(cpu_queues[c], c)

\* C3, its example: a task that ran on CPU 0 is now in a cgroup whose mask
\* is {1}; the tick leaves CPU 0 idle and migrates the task to CPU 1
C3_Witness ==
    /\ last = "TICK"
    /\ migrations = 1
    /\ cpu_queues[0] = NULL
    /\ cpu_queues[1] # NULL
    /\ task[cpu_queues[1]].cpu_affinity = <<>>
    /\ RecordOf(cpu_queues[1]) # NULL
    /\ cgroups[RecordOf(cpu_queues[1])].cpu_mask = <<1>>

\* C4 as stated: in every reachable state a cgroup with a finite quota has
\* quota_used <= cpu_quota_us
C4_QuotaBound ==
    \A i \in 1..Len(cgroups) :
        cgroups[i].cpu_quota_us >= 0
            => cgroups[i].quota_used <= cgroups[i].cpu_quota_us

\* C4, amended: quota_used <= cpu_quota_us for every cgroup with a finite
\* quota, in every state of a history in which no CgroupModify has set the
\* quota of an existing cgroup, no TaskMoveCgroup has moved and no
\* CgroupDelete has re-homed a task, and no CgroupCreate has given a record
\* to an id that tasks already named
C4_QuotaBoundUnrebound == ~rebound => C4_QuotaBound

\* C4: a cgroup whose quota is used up exactly, by ticks alone
C4_Witness ==
    /\ ~rebound
    /\ last = "TICK"
    /\ \E i \in 1..Len(cgroups) :
          /\ cgroups[i].cpu_quota_us > 0
          /\ cgroups[i].quota_used = cgroups[i].cpu_quota_us
          /\ Members(i) # {}

\* C5 as stated: at every tick, for every cgroup with finite quota Q,
\* quota_used at selection time (selection does not change it) plus
\* quantum*1000 times the number of CPUs given a member is <= Q
C5_AtomicAdmission ==
    last = "TICK" =>
        \A i \in 1..Len(cgroups) :
            cgroups[i].cpu_quota_us >= 0 =>
                cgroups[i].quota_used + TickUs * Cardinality(CpusGiven(i))
                    <= cgroups[i].cpu_quota_us

\* the case of C5's example: the registry is two tasks, both Runnable at
\* selection and charged to cgroup record i, whose quota is one tick's
\* runtime and unused, and a member is allowed on some CPU
TwoMembersOneTick(i) ==
    /\ Len(all_tasks) = 2
    /\ Cardinality(Members(i)) = 2
    /\ \A h \in Members(i) : task[h].state \in {"RUNNABLE", "RUNNING"}
    /\ cgroups[i].cpu_quota_us = TickUs
    /\ cgroups[i].quota_used = 0
    /\ \E h \in Members(i), c \in Cpus : Allowed(h, c)

\* C5, amended: at every tick, for every cgroup with finite quota Q that
\* was given a CPU in this tick, or in a history that does not rebind
\* quotas (see C4), quota_used at selection plus quantum*1000 times the
\* number of CPUs given a member is <= Q; and with Q one tick's runtime,
\* nothing used, and two Runnable members that are the whole registry,
\* exactly one CPU runs a member and the others are idle
C5_AtomicAdmissionGiven ==
    last = "TICK" =>
        \A i \in 1..Len(cgroups) :
            /\ (cgroups[i].cpu_quota_us >= 0
                    /\ (CpusGiven(i) # {} \/ ~rebound)) =>
                  cgroups[i].quota_used + TickUs * Cardinality(CpusGiven(i))
                      <= cgroups[i].cpu_quota_us
            /\ TwoMembersOneTick(i) =>
                  /\ Cardinality(CpusGiven(i)) = 1
                  /\ Cardinality({c \in Cpus : cpu_queues[c] # NULL}) = 1

\* C5, its example: two members allowed everywhere, quota of one tick, two
\* CPUs; one runs and the other CPU is idle
C5_Witness ==
    /\ last = "TICK"
    /\ cpu_count = 2
    /\ \E i \in 1..Len(cgroups) :
          /\ TwoMembersOneTick(i)
          /\ \A h \in Members(i), c \in Cpus : Allowed(h, c)
          /\ \E c \in Cpus : cpu_queues[c] # NULL /\ cpu_queues[1 - c] = NULL

\* C6: after every event and every tick, a task's current_cpu is a CPU
\* index iff its state is Running, and then that CPU's slot holds the task;
\* every non-empty slot holds a Running task whose current_cpu is the slot
C6_CpuConsistency ==
    /\ \A h \in DOMAIN task :
          /\ (task[h].current_cpu >= 0) <=> (task[h].state = "RUNNING")
          /\ task[h].current_cpu >= 0 =>
                /\ task[h].current_cpu \in Cpus
                /\ cpu_queues[task[h].current_cpu] = h
    /\ \A c \in Cpus :
          cpu_queues[c] # NULL =>
              /\ task[cpu_queues[c]].state = "RUNNING"
              /\ task[cpu_queues[c]].current_cpu = c

\* C7: a tick adds exactly quantum * 1024 / effective_weight to the
\* vruntime of every task that the previous decision placed on a CPU, that
\* was not blocked and did not exit since (it is still in its slot), and
\* that is not in burst
C7_TickCharge ==
    [][nticks' = nticks + 1 =>
         \A c \in Cpus :
            (cpu_queues[c] # NULL /\ ~task[cpu_queues[c]].is_burst) =>
                task'[cpu_queues[c]].vruntime
                    = task[cpu_queues[c]].vruntime
                      + (quanta * 1024 * VScale)
                            \div EffectiveWeight(cpu_queues[c])]_vars

\* whether this step is a tick that charges the task as Running
Charged(h) ==
    /\ nticks' = nticks + 1
    /\ task[h].state = "RUNNING"
    /\ \E c \in Cpus : cpu_queues[c] = h

\* C8: CpuBurst(T, d), d > 0, sets the countdown to d and the flag, and
\* leaves the vruntime; a tick that charges T as Running while the
\* countdown is > 0 leaves T's vruntime, decrements the countdown and
\* clears the flag when it reaches 0; nothing else changes the countdown
\* or the flag; a tick that charges T when it is not in burst strictly
\* increases T's vruntime
C8_BurstNeutrality ==
    [][\A h \in (DOMAIN task) \cap (DOMAIN task') :
          /\ (Charged(h) /\ task[h].is_burst /\ task[h].burst_remaining > 0) =>
                /\ task'[h].vruntime = task[h].vruntime
                /\ task'[h].burst_remaining = task[h].burst_remaining - 1
                /\ task'[h].is_burst = (task'[h].burst_remaining > 0)
          /\ (Charged(h) /\ ~task[h].is_burst) =>
                /\ task'[h].vruntime > task[h].vruntime
                /\ ~task'[h].is_burst
                /\ task'[h].burst_remaining = task[h].burst_remaining
          /\ ~Charged(h) =>
                \/ /\ task'[h].is_burst = task[h].is_burst
                   /\ task'[h].burst_remaining = task[h].burst_remaining
                \/ /\ last' = "CPU_BURST"
                   /\ task'[h].is_burst
                   /\ task'[h].burst_remaining \in BurstVals
                   /\ task'[h].vruntime = task[h].vruntime]_vars

\* C8: the only task ran on all three ticks and was charged on two of them,
\* yet holds the vruntime of one charge: the burst of one tick made the
\* first charge neutral, and the next one counted
C8_Witness ==
    /\ last = "TICK"
    /\ nticks = 3
    /\ Len(all_tasks) = 1
    /\ Len(cgroups) = 0
    /\ \E h \in DOMAIN task :
          /\ ran[h] = 3
          /\ task[h].nice = 0
          /\ ~task[h].is_burst
          /\ task[h].burst_remaining = 0
          /\ task[h].vruntime = VScale

\* C9: one CPU, two tasks of equal nice in the same cgroup, created before
\* the first tick, no further events: after every number of ticks the
\* numbers of ticks on which each was scheduled differ by at most 1
C9_Fairness ==
    Len(all_tasks) = 2 =>
        /\ ran[all_tasks[1]] - ran[all_tasks[2]] <= 1
        /\ ran[all_tasks[2]] - ran[all_tasks[1]] <= 1

\* C9: a hundred ticks, every one of them given to one of the two tasks
C9_Witness ==
    /\ Len(all_tasks) = 2
    /\ nticks >= 100
    /\ ran[all_tasks[1]] + ran[all_tasks[2]] = nticks
    /\ ran[all_tasks[1]] = ran[all_tasks[2]]

\* C10: one CPU, unlimited quota, H (shares 4096) and L (shares 128) with
\* one task of nice 0 each: after 40 ticks H's task ran on strictly more
\* ticks than L's
C10_SharesEffect ==
    nticks >= 40 =>
        \A x, y \in DOMAIN task :
            (task[x].cgroup_id = "H" /\ task[y].cgroup_id = "L")
                => ran[x] > ran[y]

\* C10: forty ticks, L's task having run too
C10_Witness ==
    /\ nticks >= 40
    /\ \E x, y \in DOMAIN task :
          /\ task[x].cgroup_id = "H"
          /\ task[y].cgroup_id = "L"
          /\ task[x].nice = 0 /\ task[y].nice = 0
          /\ ran[y] >= 1
          /\ ran[x] > ran[y]
          /\ ran[x] + ran[y] = nticks

\* the task an event that names id acts on: the first in the registry
Named(id) == scheduler_find_task(task, all_tasks, id)

\* whether this step is the event of the given action
IsEvent(a) == nevents' = nevents + 1 /\ last' = a

\* the Runnable and Running tasks other than h
OthersActive(h) ==
    {x \in DOMAIN task : x # h /\ task[x].state \in {"RUNNABLE", "RUNNING"}}

\* the least vruntime among the tasks of a non-empty set
MinVruntime(S) ==
    LET x == CHOOSE x \in S : \A y \in S : task[x].vruntime <= task[y].vruntime
    IN  task[x].vruntime

\* whether the task ids of the registry are pairwise distinct
DistinctIds ==
    \A i, j \in 1..Len(all_tasks) :
        i # j => task[all_tasks[i]].task_id # task[all_tasks[j]].task_id

\* C11: right after TaskUnblock of a Blocked task T, T.vruntime >= m' - 1,
\* m' the least vruntime of the other Runnable or Running tasks, when there
\* is one (the guarantee the rule vruntime = max(old, m - 1) is stated to give)
C11_UnblockBonus ==
    [][(IsEvent("TASK_UNBLOCK") /\ DistinctIds /\ Named(arg') # NULL
            /\ task[Named(arg')].state = "BLOCKED"
            /\ OthersActive(Named(arg')) # {}) =>
          task'[Named(arg')].vruntime >=
              MinVruntime(OthersActive(Named(arg'))) - VScale]_vars

\* whether this step is a tick
IsTick == nticks' = nticks + 1

\* the Runnable tasks other than h that CPU c may run: affinity permits and
\* no cgroup record constrains them
OthersEligible(h, c) ==
    {x \in SeqToSet(all_tasks) :
        /\ x # h
        /\ task[x].state = "RUNNABLE"
        /\ RecordOf(x) = NULL
        /\ \/ task[x].cpu_affinity = <<>>
           \/ c \in SeqToSet(task[x].cpu_affinity)}

\* whether the last step was TaskYield of the task that ran in the last tick
\* of a single-CPU scheduler, with another Runnable task eligible
YieldedAfterRunning ==
    /\ cpu_count = 1
    /\ last = "TASK_YIELD"
    /\ DistinctIds
    /\ Named(arg) # NULL
    /\ tick.schedule = <<arg>>
    /\ cpu_queues[0] = Named(arg)
    /\ task[Named(arg)].state = "RUNNING"
    /\ OthersEligible(Named(arg), 0) # {}

\* whether no heap entry has a smaller vruntime than its parent
HeapOrdered ==
    \A k \in 1..(Len(heap) - 1) :
        task[At(heap, (k - 1) \div 2)].vruntime <= task[At(heap, k)].vruntime

\* the greatest vruntime of the Runnable and Running tasks, 0 without one
MaxVruntimeActive ==
    LET a == {x \in SeqToSet(all_tasks) :
                 task[x].state \in {"RUNNABLE", "RUNNING"}}
    IN  IF a = {} THEN 0
        ELSE LET x == CHOOSE x \in a :
                          \A y \in a : task[x].vruntime >= task[y].vruntime
             IN  task[x].vruntime

BlockedTasks == {h \in SeqToSet(all_tasks) : task[h].state = "BLOCKED"}

\* C13: TaskBlock of a task sets it Blocked, takes it out of the heap,
\* empties the CPU slot it occupied and sets its current CPU to -1; a task
\* that is Blocked when a tick runs is in no CPU slot after the tick; after
\* TaskUnblock a Blocked task is Runnable and in the heap
C13_BlockUnblock ==
    [][/\ (IsEvent("TASK_BLOCK") /\ Named(arg') # NULL) =>
             /\ task'[Named(arg')].state = "BLOCKED"
             /\ Named(arg') \notin SeqToSet(heap')
             /\ task'[Named(arg')].heap_index = -1
             /\ \A c \in Cpus : cpu_queues'[c] # Named(arg')
             /\ task'[Named(arg')].current_cpu = -1
       /\ IsTick =>
             \A h \in BlockedTasks :
                /\ \A c \in Cpus : cpu_queues'[c] # h
                /\ task'[h].state = "BLOCKED"
                /\ DistinctIds => task[h].task_id \notin SeqToSet(tick'.schedule)
       /\ (IsEvent("TASK_UNBLOCK") /\ Named(arg') # NULL
              /\ task[Named(arg')].state = "BLOCKED") =>
             /\ task'[Named(arg')].state = "RUNNABLE"
             /\ task'[Named(arg')].heap_index >= 0
             /\ task'[Named(arg')].heap_index < Len(heap')
             /\ At(heap', task'[Named(arg')].heap_index) = Named(arg')]_vars

\* one CPU, one task: the task ran, was blocked, a tick left the CPU idle,
\* the task was unblocked and the tick after the unblock has just run it
\* (it was never charged: the block took it off the CPU before the
\* accounting of the next tick)
C13_Witness ==
    /\ cpu_count = 1
    /\ Len(all_tasks) = 1
    /\ last = "TICK"
    /\ before.last = "TASK_UNBLOCK"
    /\ before.schedule = <<"idle">>
    /\ before.arg = task[all_tasks[1]].task_id
    /\ tick.schedule = <<before.arg>>
    /\ cpu_queues[0] = all_tasks[1]
    /\ task[all_tasks[1]].state = "RUNNING"
    /\ task[all_tasks[1]].vruntime = 0
    /\ ~task[all_tasks[1]].is_burst
    /\ ran[all_tasks[1]] = 2

\* the ids of the tasks of the registry
RegistryIds == {task[h].task_id : h \in SeqToSet(all_tasks)}

\* whether the task is as it was before the step, its heap position aside
SameTask(x) ==
    /\ x \in SeqToSet(all_tasks')
    /\ task'[x] = [task[x] EXCEPT !.heap_index = task'[x].heap_index]

\* what TaskExit of the task with handle h and id must leave behind: no
\* record of the id, no reference to the task in the heap or in a CPU slot,
\* every other task unchanged
ExitRemoves(h, id) ==
    /\ h \notin SeqToSet(all_tasks')
    /\ h \notin DOMAIN task'
    /\ \A x \in SeqToSet(all_tasks') : task'[x].task_id # id
    /\ h \notin SeqToSet(heap')
    /\ \A c \in Cpus : cpu_queues'[c] # h
    /\ \A x \in SeqToSet(all_tasks) \ {h} : SameTask(x)

\* the ids a tick reports are ids of tasks of the registry
TickNamesRegistry ==
    /\ SeqToSet(tick'.schedule) \subseteq RegistryIds' \cup {"idle"}
    /\ SeqToSet(tick'.meta.runnable_tasks) \subseteq RegistryIds'
    /\ SeqToSet(tick'.meta.blocked_tasks) \subseteq RegistryIds'

\* C14: after TaskExit(id) of an existing task no record with that id is in
\* the registry, neither the heap nor a CPU slot refers to the task, every
\* other task is unchanged, and a later tick names only ids of the registry
C14_ExitRemoves ==
    [][/\ (IsEvent("TASK_EXIT") /\ Named(arg') # NULL) =>
             ExitRemoves(Named(arg'), arg')
       /\ IsTick => TickNamesRegistry]_vars

\* C15: TaskCreate(id) creates a task only when no task of the registry has
\* that id, and otherwise leaves the registry, the heap and the tasks as
\* they are; hence the task ids of the registry are pairwise distinct
C15_UniqueIds ==
    /\ Cardinality(RegistryIds) = Len(all_tasks)
    /\ Cardinality(SeqToSet(all_tasks)) = Len(all_tasks)

\* C16: after every event and every tick, for every task, the burst
\* countdown is above zero exactly when the burst flag is set, whatever
\* integer duration a CpuBurst carried
C16_BurstFlag ==
    \A h \in SeqToSet(all_tasks) :
        (task[h].burst_remaining > 0) <=> task[h].is_burst

\* whether this step receives a TimeFrame
IsReceive == tf'.n = tf.n + 1

\* the events applied from the frame so far
AppliedEvents == [i \in 1..Len(tf.applied) |-> tf.applied[i].e]

\* C17: for every TimeFrame with virtual time t, the events are applied in
\* array order, then exactly one tick runs and one decision is produced,
\* with vtime t and a schedule of cpu_count entries, each "idle" or the id
\* of a task of the registry, whatever the events returned
C17_FrameDecision ==
    [][/\ IsReceive => nticks = tf.n /\ tf.done
       /\ nevents' = nevents + 1 =>
             /\ ~tf.done
             /\ Len(tf.applied) < Len(FrameEvents)
             /\ tf'.applied =
                   Append(tf.applied,
                          [e |-> FrameEvents[Len(tf.applied) + 1],
                           ret |-> ret'])
             /\ last' = FrameEvents[Len(tf.applied) + 1].action
             /\ nticks = tf.n - 1
       /\ IsTick =>
             /\ ~tf.done /\ tf'.done
             /\ AppliedEvents = FrameEvents
             /\ nticks' = tf.n
             /\ tick'.vtime = tf.vtime
             /\ Len(tick'.schedule) = cpu_count
             /\ SeqToSet(tick'.schedule) \subseteq RegistryIds' \cup {"idle"}]_vars

\* the decision of the second frame has been produced, with a task on a CPU,
\* although both events of the frame were applied and both returned -1
C17_Witness ==
    /\ last = "TICK"
    /\ tf.done
    /\ tf.n = 2
    /\ nticks = 2
    /\ Len(tf.applied) = 2
    /\ \A i \in 1..2 : tf.applied[i].ret = -1
    /\ tick.vtime = tf.vtime
    /\ tick.vtime = 1
    /\ \E c \in Cpus : cpu_queues[c] # NULL

\* whether the frame being served has just had an event of unknown action
\* processed
AfterUnknown ==
    /\ ~tf.done
    /\ tf.applied # <<>>
    /\ tf.applied[Len(tf.applied)].e.action \notin KnownActions

\* C18: scheduler_process_event with an unknown action returns -1 and leaves
\* tasks, cgroups, heap, CPU slots and counters unchanged; the frame goes on:
\* the step after it is the next event of the frame or the frame's tick, and
\* at the tick every event of the frame that reached scheduler_process_event
\* has been applied, in order
C18_UnknownAction ==
    [][/\ (nevents' = nevents + 1 /\ last' \notin KnownActions) =>
             /\ ret' = -1
             /\ UNCHANGED <<cpu_count, quanta, current_vtime, preemptions,
                            migrations, task, all_tasks, cgroups, heap,
                            cpu_queues, tick>>
       /\ AfterUnknown =>
             /\ ret = -1
             /\ \/ /\ IsTick
                   /\ AppliedEvents = FrameEvents
                   /\ tick'.vtime = tf.vtime
                \/ /\ nevents' = nevents + 1
                   /\ tf'.applied[Len(tf'.applied)].e =
                         FrameEvents[Len(tf.applied) + 1]]_vars

\* a frame handed over as structures held an event of unknown action and then
\* a TaskCreate: the first returned -1, the second was applied and returned
\* 0, and the tick of the frame has run the new task
C18_Witness ==
    /\ last = "TICK"
    /\ tf.done
    /\ ~tf.json
    /\ Len(tf.applied) = 2
    /\ tf.applied[1].e.action \notin KnownActions
    /\ tf.applied[1].ret = -1
    /\ tf.applied[2].e.action = "TASK_CREATE"
    /\ tf.applied[2].ret = 0
    /\ tf.n = 1
    /\ Len(all_tasks) = 1
    /\ tick.schedule[1] = tf.applied[2].e.task_id

\* whether this step is an event that names a task, or a cgroup, that does
\* not exist
MissingTarget ==
    /\ nevents' = nevents + 1
    /\ \/ /\ last' \in {"TASK_EXIT", "TASK_BLOCK", "TASK_UNBLOCK",
                        "TASK_YIELD", "TASK_SETNICE", "TASK_SET_AFFINITY",
                        "TASK_MOVE_CGROUP", "CPU_BURST"}
          /\ Named(arg') = NULL
       \/ /\ last' \in {"CGROUP_MODIFY", "CGROUP_DELETE"}
          /\ scheduler_find_cgroup(cgroups, arg') = NULL

\* whether the step leaves the state of the scheduler as it is
SchedulerUnchanged ==
    UNCHANGED <<cpu_count, quanta, current_vtime, preemptions, migrations,
                task, all_tasks, cgroups, heap, cpu_queues, tick>>

\* C19: an event that names a task that does not exist (Exit, Block,
\* Unblock, Yield, SetNice, SetAffinity, MoveCgroup, CpuBurst) or a cgroup
\* that does not exist (CgroupModify, CgroupDelete) makes
\* scheduler_process_event return -1 and leaves the state unchanged
C19_MissingTarget ==
    [][MissingTarget => (ret' = -1 /\ SchedulerUnchanged)]_vars

\* whether the period of cgroup record i is over at virtual time t, or t is
\* before its start
ResetDue(i, t) ==
    \/ t < cgroups[i].period_start_vtime
    \/ (t - cgroups[i].period_start_vtime) * quanta * 1000
          >= cgroups[i].cpu_period_us

\* the CPUs whose Running task the accounting of the tick charges to record i
RunningMembers(i) ==
    {c \in Cpus : /\ cpu_queues[c] # NULL
                  /\ task[cpu_queues[c]].state = "RUNNING"
                  /\ RecordOf(cpu_queues[c]) = i}

\* one CPU, quantum 50, one task, in the one cgroup, quota 50000 us and
\* period 100000 us
ThrottleCase ==
    /\ cpu_count = 1
    /\ quanta = 50
    /\ Len(cgroups) = 1
    /\ cgroups[1].cpu_quota_us = 50000
    /\ cgroups[1].cpu_period_us = 100000
    /\ Len(all_tasks) = 1
    /\ RecordOf(all_tasks[1]) = 1

\* C20: the prologue of tick t resets a cgroup (used = 0, period start = t)
\* exactly when t is before the period start or (t - period start) * quantum
\* * 1000 >= period, once and before the accounting, which then adds the
\* tick of each Running member; otherwise used and period start are as
\* before the prologue.  With quantum 50, one CPU, one task in a cgroup of
\* quota 50000 and period 100000: tick 0 runs the task, tick 1 is idle, tick
\* 2 runs the task
C20_PeriodReset ==
    [][IsTick =>
         /\ \A i \in 1..Len(cgroups) :
               /\ cgroups'[i].period_start_vtime =
                     (IF ResetDue(i, tick'.vtime) THEN tick'.vtime
                      ELSE cgroups[i].period_start_vtime)
               /\ cgroups'[i].quota_used =
                     (IF ResetDue(i, tick'.vtime) THEN 0
                      ELSE cgroups[i].quota_used)
                     + (IF cgroups[i].cpu_quota_us > 0
                        THEN TickUs * Cardinality(RunningMembers(i)) ELSE 0)
         /\ (ThrottleCase /\ nevents = 2 /\ nticks = 0) =>
               tick'.schedule = <<task[all_tasks[1]].task_id>>
         /\ (ThrottleCase /\ nevents = 2 /\ nticks = 1 /\ tick'.vtime = 1
                /\ ran[all_tasks[1]] = 1) =>
               tick'.schedule = <<"idle">>
         /\ (ThrottleCase /\ nevents = 2 /\ nticks = 2 /\ tick'.vtime = 2
                /\ ran[all_tasks[1]] = 1 /\ tick.schedule = <<"idle">>) =>
               tick'.schedule = <<task[all_tasks[1]].task_id>>]_vars

\* the task of the throttling case has run on tick 0, the CPU was idle on
\* tick 1, and tick 2 has reset the period and has run the task again
C20_Witness ==
    /\ ThrottleCase
    /\ nevents = 2
    /\ nticks = 3
    /\ last = "TICK"
    /\ tick.vtime = 2
    /\ before.schedule = <<"idle">>
    /\ ran[all_tasks[1]] = 2
    /\ tick.schedule = <<task[all_tasks[1]].task_id>>
    /\ cgroups[1].period_start_vtime = 2
    /\ cgroups[1].quota_used = 0

\* the cgroup record the code finds for the id, before the step
NamedCgroup(id) == scheduler_find_cgroup(cgroups, id)

\* whether record c after the step has the fields the event e provides and,
\* for the fields it does not provide, those it had before
FieldsReplaced(c, e) ==
    /\ cgroups'[c].cgroup_id = cgroups[c].cgroup_id
    /\ e.has_cpu_shares /\ e.cpu_shares > 0 =>
          cgroups'[c].cpu_shares = e.cpu_shares
    /\ ~e.has_cpu_shares => cgroups'[c].cpu_shares = cgroups[c].cpu_shares
    /\ e.has_cpu_quota /\ e.cpu_quota_us >= -1 =>
          cgroups'[c].cpu_quota_us = e.cpu_quota_us
    /\ ~e.has_cpu_quota => cgroups'[c].cpu_quota_us = cgroups[c].cpu_quota_us
    /\ e.has_cpu_period /\ e.cpu_period_us > 0 =>
          cgroups'[c].cpu_period_us = e.cpu_period_us
    /\ ~e.has_cpu_period =>
          /\ cgroups'[c].cpu_period_us = cgroups[c].cpu_period_us
          /\ cgroups'[c].quota_used = cgroups[c].quota_used
          /\ cgroups'[c].period_start_vtime = cgroups[c].period_start_vtime
    /\ (e.has_cpu_period /\ e.cpu_period_us > 0
           /\ e.cpu_period_us # cgroups[c].cpu_period_us) =>
          /\ cgroups'[c].quota_used = 0
          /\ cgroups'[c].period_start_vtime = current_vtime

\* C21: CgroupModify of an existing cgroup replaces exactly the provided
\* fields among shares, quota, period and mask and keeps the others; when
\* it changes the period, used becomes 0 and the period start the current
\* virtual time
C21_ModifyFields ==
    [][(IsEvent("CGROUP_MODIFY") /\ NamedCgroup(ev'.cgroup_id) # NULL) =>
          /\ FieldsReplaced(NamedCgroup(ev'.cgroup_id), ev')
          /\ cgroups'[NamedCgroup(ev'.cgroup_id)].cpu_mask =
                (IF ev'.has_cpu_mask THEN ev'.cpu_mask
                 ELSE cgroups[NamedCgroup(ev'.cgroup_id)].cpu_mask)
          /\ Len(cgroups') = Len(cgroups)
          /\ \A i \in 1..Len(cgroups) :
                i # NamedCgroup(ev'.cgroup_id) => cgroups'[i] = cgroups[i]]_vars

\* C22: CgroupDelete(id) of an existing cgroup removes its record and moves
\* every task whose cgroup is id to cgroup "0", changing nothing else of
\* the tasks, the registry, the heap or the CPU slots; no record of the id
\* and no task of cgroup id is left
C22_DeleteReassigns ==
    [][(IsEvent("CGROUP_DELETE") /\ NamedCgroup(ev'.cgroup_id) # NULL) =>
          /\ \A i \in 1..Len(cgroups') : cgroups'[i].cgroup_id # ev'.cgroup_id
          /\ Len(cgroups') = Len(cgroups) - 1
          /\ \A h \in SeqToSet(all_tasks) :
                /\ task'[h].cgroup_id # ev'.cgroup_id
                /\ task'[h] = [task[h] EXCEPT !.cgroup_id =
                                 IF @ = ev'.cgroup_id THEN "0" ELSE @]
          /\ UNCHANGED <<all_tasks, heap, cpu_queues>>]_vars

\* the task the last TaskCreate added: the last of the registry
Created(tsk, order) == tsk[order[Len(order)]]

\* C23: the task a TaskCreate adds is Runnable and in the heap, on no CPU,
\* in no burst, with nice 0, cgroup "0" and affinity "any" unless the event
\* gives them, and with the greatest vruntime of the Runnable and Running
\* tasks of that moment (0 without one)
C23_CreateDefaults ==
    [][IsEvent("TASK_CREATE") =>
          /\ Len(all_tasks') = Len(all_tasks) + 1
          /\ SubSeq(all_tasks', 1, Len(all_tasks)) = all_tasks
          /\ all_tasks'[Len(all_tasks')] \notin SeqToSet(all_tasks)
          /\ Created(task', all_tasks').task_id = ev'.task_id
          /\ Created(task', all_tasks').state = "RUNNABLE"
          /\ Created(task', all_tasks').heap_index \in 0..(Len(heap') - 1)
          /\ At(heap', Created(task', all_tasks').heap_index) =
                all_tasks'[Len(all_tasks')]
          /\ Created(task', all_tasks').current_cpu = -1
          /\ \A c \in DOMAIN cpu_queues' :
                cpu_queues'[c] # all_tasks'[Len(all_tasks')]
          /\ ~Created(task', all_tasks').is_burst
          /\ Created(task', all_tasks').burst_remaining = 0
          /\ Created(task', all_tasks').nice =
                (IF ev'.has_nice THEN ev'.nice ELSE 0)
          /\ Created(task', all_tasks').cgroup_id =
                (IF ev'.cgroup_id = "" THEN "0" ELSE ev'.cgroup_id)
          /\ Created(task', all_tasks').cpu_affinity =
                (IF ev'.has_cpu_mask THEN ev'.cpu_mask ELSE <<>>)
          /\ Created(task', all_tasks').vruntime = MaxVruntimeActive]_vars

\* a task was just created next to a task that has run, with that task's
\* vruntime and every default
C23_Witness ==
    /\ last = "TASK_CREATE"
    /\ Len(all_tasks) = 2
    /\ ~ev.has_nice /\ ev.cgroup_id = "" /\ ~ev.has_cpu_mask
    /\ task[all_tasks[1]].state \in {"RUNNABLE", "RUNNING"}
    /\ task[all_tasks[1]].vruntime > 0
    /\ Created(task, all_tasks).vruntime = task[all_tasks[1]].vruntime
    /\ Created(task, all_tasks).cgroup_id = "0"
    /\ Created(task, all_tasks).nice = 0


\* what the metadata of a tick must list, given the state the tick leaves
MetadataLists(t) ==
    /\ SeqToSet(t.meta.runnable_tasks) =
          {task[h].task_id : h \in {x \in SeqToSet(all_tasks) :
                                task[x].state \in {"RUNNABLE", "RUNNING"}}}
    /\ SeqToSet(t.meta.blocked_tasks) =
          {task[h].task_id : h \in BlockedTasks}
    /\ \A h \in SeqToSet(all_tasks) :
          (task[h].task_id \in SeqToSet(t.meta.runnable_tasks))
             # (task[h].task_id \in SeqToSet(t.meta.blocked_tasks))
    /\ \A i \in 1..Len(t.schedule) :
          t.schedule[i] # "idle" =>
             t.schedule[i] \in SeqToSet(t.meta.runnable_tasks)

\* C24: in the metadata of every tick runnableTasks is exactly the ids of
\* the registry tasks that are Runnable or Running at the end of the tick,
\* blockedTasks exactly the ids of the Blocked ones, every registry task is
\* in exactly one of the two lists, and every id of the schedule is in
\* runnableTasks
C24_MetadataLists == last = "TICK" => MetadataLists(tick)


\* C25: two instances with the same CPU count and quantum that get the
\* same events and tick times return the same decision records, ties
\* included: every tick the second instance has returned is the tick the
\* first returned at that place
C25_Deterministic ==
    replay.phase = 2 =>
       /\ Len(replay.outs2) <= Len(replay.outs)
       /\ \A i \in 1..Len(replay.outs2) : replay.outs2[i] = replay.outs[i]

\* the second instance has been given every call, the last a tick on one
\* CPU that had to choose between two Runnable tasks of equal vruntime
C25_Witness ==
    /\ replay.phase = 2
    /\ replay.pos = Len(replay.inputs)
    /\ replay.outs2 = replay.outs
    /\ last = "TICK"
    /\ cpu_count = 1
    /\ Len(all_tasks) = 2
    /\ task[all_tasks[1]].vruntime = task[all_tasks[2]].vruntime
    /\ task[all_tasks[1]].task_id # task[all_tasks[2]].task_id
    /\ \E h \in SeqToSet(all_tasks) : task[h].state = "RUNNING"
    /\ \E h \in SeqToSet(all_tasks) : task[h].state = "RUNNABLE"
    /\ nticks = 1


\* C26: heap_extract_min returns NULL on an empty heap and otherwise takes
\* out and returns a task whose vruntime is <= that of every task left;
\* successive extracts return non-decreasing vruntimes, one task each, down
\* to the empty heap; heap_peek returns what the next extract would return
\* (NULL when empty) and changes nothing
C26_ExtractMin ==
    [][/\ (last' = "EXTRACT" /\ heap = <<>>) =>
             ret' = NULL /\ UNCHANGED <<task, heap>>
       /\ (last' = "EXTRACT" /\ heap # <<>>) =>
             /\ ret' \in SeqToSet(heap)
             /\ SeqToSet(heap') = SeqToSet(heap) \ {ret'}
             /\ Len(heap') = Len(heap) - 1
             /\ \A x \in SeqToSet(heap') :
                   task'[ret'].vruntime <= task'[x].vruntime
             /\ \A x \in DOMAIN task : task'[x].vruntime = task[x].vruntime
       /\ (last = "EXTRACT" /\ ret # NULL /\ last' = "EXTRACT" /\ ret' # NULL) =>
             task[ret].vruntime <= task[ret'].vruntime
       /\ last' = "PEEK" =>
             /\ UNCHANGED <<task, heap>>
             /\ ret' = heap_extract_min(M).min
             /\ (heap = <<>>) = (ret' = NULL)]_vars

\* an extract has just returned a task of the least vruntime from a heap
\* that still holds four tasks or more, of both vruntimes
C26_Witness ==
    /\ last = "EXTRACT"
    /\ ret # NULL
    /\ Len(heap) >= 4
    /\ task[ret].vruntime = 0
    /\ \E x \in SeqToSet(heap) : task[x].vruntime = 0
    /\ \E x \in SeqToSet(heap) : task[x].vruntime > 0

\* the heap as the index fields describe it: every slot's task points back
\* to the slot, no task is in two slots, and a task in no slot has index -1
HeapIndexed ==
    /\ \A i \in 0..(Len(heap) - 1) : task[At(heap, i)].heap_index = i
    /\ \A i, j \in 1..Len(heap) : i # j => heap[i] # heap[j]
    /\ \A h \in DOMAIN task : h \notin SeqToSet(heap) => task[h].heap_index = -1

\* the task of the pool with the id
Pooled(id) == CHOOSE h \in DOMAIN task : task[h].task_id = id

\* C27: after any heap_insert, heap_extract_min, heap_remove or heap_update
\* (of an enqueued task whose vruntime changed) every parent's vruntime is
\* <= its children's, tasks[i].heap_index = i for every slot, every task
\* outside the heap has heap_index -1, and the heap holds exactly the tasks
\* inserted and not yet taken out: insert adds the one task, extract takes
\* the returned one, remove takes the named one and fails (-1, nothing
\* changed) for a task that is not enqueued, update moves tasks only
C27_HeapInvariant ==
    [][/\ HeapOrdered'
       /\ HeapIndexed'
       /\ last' = "INSERT" =>
             /\ Len(heap') = Len(heap) + 1
             /\ \E h \in DOMAIN task \ SeqToSet(heap) :
                   SeqToSet(heap') = SeqToSet(heap) \cup {h}
       /\ last' = "EXTRACT" => SeqToSet(heap') = SeqToSet(heap) \ {ret'}
       /\ last' = "UPDATE" => SeqToSet(heap') = SeqToSet(heap)
       /\ (last' = "REMOVE" /\ InHeap(Pooled(arg'))) =>
             /\ ret' = 0
             /\ SeqToSet(heap') = SeqToSet(heap) \ {Pooled(arg')}
             /\ Len(heap') = Len(heap) - 1
       /\ (last' = "REMOVE" /\ ~InHeap(Pooled(arg'))) =>
             ret' = -1 /\ UNCHANGED <<task, heap>>]_vars

\* a task that was neither the root nor the last has just been removed from
\* a heap of six tasks of both vruntimes
C27_Witness ==
    /\ last = "REMOVE"
    /\ ret = 0
    /\ Len(heap) = 5
    /\ \E x \in SeqToSet(heap) : task[x].vruntime = 0
    /\ \E x \in SeqToSet(heap) : task[x].vruntime > 0
    /\ \E h \in DOMAIN task : task[h].task_id = arg /\ task[h].heap_index = -1


\* the nice value in range that is nearest to n
Clamped(n) == IF n < NICE_MIN THEN NICE_MIN ELSE IF n > NICE_MAX THEN NICE_MAX ELSE n

\* every task has a nice value in [-20, 19] and the weight of the table for
\* it; every cgroup has positive shares and a positive period
InRange ==
    /\ \A h \in SeqToSet(all_tasks) :
          /\ task[h].nice \in NICE_MIN..NICE_MAX
          /\ task[h].weight = sched_prio_to_weight[task[h].nice - NICE_MIN + 1]
    /\ \A i \in 1..Len(cgroups) :
          cgroups[i].cpu_shares > 0 /\ cgroups[i].cpu_period_us > 0

\* the shares and the period an event gives a cgroup record: a value <= 0
\* stands for the default
DefaultsFor(c, e) ==
    /\ (e.has_cpu_shares /\ e.cpu_shares <= 0) =>
          c.cpu_shares = DEFAULT_CPU_SHARES
    /\ (e.has_cpu_period /\ e.cpu_period_us <= 0) =>
          c.cpu_period_us = DEFAULT_CPU_PERIOD_US

\* C28: values beyond the limits are clamped, never rejected: after
\* TaskCreate and TaskSetNice with any integer the task has the nearest nice
\* value of [-20, 19] and the weight of the table; every cgroup has shares
\* > 0 and period > 0, a shares or period value <= 0 given to CgroupCreate
\* or CgroupModify being replaced with the default (1024, 100000)
C28_BoundaryClamp ==
    [][/\ InRange'
       /\ IsEvent("TASK_CREATE") =>
             Created(task', all_tasks').nice = Clamped(ev'.nice)
       /\ (IsEvent("TASK_SETNICE") /\ Named(ev'.task_id) # NULL) =>
             task'[Named(ev'.task_id)].nice = Clamped(ev'.nice)
       /\ IsEvent("CGROUP_CREATE") =>
             /\ Len(cgroups') = Len(cgroups) + 1
             /\ DefaultsFor(cgroups'[Len(cgroups')], ev')
       /\ (IsEvent("CGROUP_MODIFY") /\ NamedCgroup(ev'.cgroup_id) # NULL) =>
             DefaultsFor(cgroups'[NamedCgroup(ev'.cgroup_id)], ev')]_vars


\* the selection state before CPU c of the tick that starts from the
\* accounted state a
BeforeCpu(a, c, rt) ==
    ScheduleLoop([m |-> rebuild_runnable_heap(a.task, all_tasks),
                  slots |-> [x \in Cpus |-> NULL],
                  planned |-> [i \in 1..Len(a.cgroups) |-> 0],
                  assigned |-> {},
                  preemptions |-> 0,
                  migrations |-> 0,
                  schedule |-> <<>>],
                 a.cgroups, cpu_queues, 0, c, rt)

\* whether task t passes the three filters for CPU c: its affinity, the
\* mask of its cgroup, and the quota left once the runtime planned in this
\* tick and one tick more are counted
PassesFilters(t, cgs, planned, c, rt) ==
    LET r == scheduler_find_cgroup(cgs, t.cgroup_id)
    IN  /\ t.cpu_affinity = <<>> \/ c \in SeqToSet(t.cpu_affinity)
        /\ \/ r = NULL
           \/ /\ cgs[r].cpu_mask = <<>> \/ c \in SeqToSet(cgs[r].cpu_mask)
              /\ \/ cgs[r].cpu_quota_us < 0
                 \/ cgs[r].quota_used + planned[r] + rt <= cgs[r].cpu_quota_us

\* what the pick p for CPU c must be, from the selection state s
PickAscending(s, p, cgs, c, rt) ==
    LET waiting == {x \in SeqToSet(all_tasks) :
                       s.m.task[x].state = "RUNNABLE" /\ x \notin s.assigned}
    IN  /\ p.selected # NULL =>
              /\ p.selected \in waiting
              /\ PassesFilters(s.m.task[p.selected], cgs, s.planned, c, rt)
              /\ \A x \in waiting :
                    PassesFilters(s.m.task[x], cgs, s.planned, c, rt) =>
                       s.m.task[p.selected].vruntime <= s.m.task[x].vruntime
        /\ SeqToSet(p.m.heap) = waiting \ {p.selected}
        /\ Len(p.m.heap) = Cardinality(SeqToSet(p.m.heap))

\* the picks of every CPU of the tick at vtime vt, from the accounted state
PicksAscending(a, rt) ==
    \A c \in Cpus :
       \E s \in {BeforeCpu(a, c, rt)} :
          PickAscending(s, pick_task_for_cpu(s.m, a.cgroups, c, s.planned, rt),
                        a.cgroups, c, rt)

\* C29: in a tick the task selected for CPU c has a vruntime <= that of
\* every other Runnable task not selected so far that passes the three
\* filters for c (affinity, cgroup mask, quota left with the runtime
\* planned in this tick); the rejected candidates are put back, so after
\* the pick the heap holds exactly the Runnable tasks not selected so far
C29_PickAscending ==
    [][IsTick =>
          PicksAscending(AfterAccounting(task, cgroups, cpu_queues, quanta,
                                         current_vtime', cpu_count),
                         quanta * 1000)]_vars

\* a tick has just passed over a Runnable task whose cgroup has no quota
\* left and selected a task of greater vruntime
C29_Witness ==
    /\ last = "TICK"
    /\ \E h, x \in SeqToSet(all_tasks) :
          /\ task[h].state = "RUNNING"
          /\ task[x].state = "RUNNABLE"
          /\ InHeap(x)
          /\ task[x].vruntime < task[h].vruntime
          /\ RecordOf(x) # NULL
          /\ cgroups[RecordOf(x)].cpu_quota_us >= 0
          /\ cgroups[RecordOf(x)].quota_used + quanta * 1000
                > cgroups[RecordOf(x)].cpu_quota_us


\* the CPUs whose slot held a task before the step and holds another after
PreemptedCpus ==
    {c \in Cpus : /\ cpu_queues[c] # NULL
                  /\ cpu_queues'[c] # NULL
                  /\ cpu_queues'[c] # cpu_queues[c]}

\* C30: the preemptions counter starts every tick at 0 and at its end is the
\* number of CPUs whose slot held a task when the tick started and for which
\* the tick selected another task; a CPU that becomes idle or whose slot was
\* empty adds nothing; the tick reports the counter
C30_Preemptions ==
    [][IsTick =>
          /\ preemptions' = Cardinality(PreemptedCpus)
          /\ tick'.meta.preemptions = preemptions'
          /\ \A c \in Cpus : cpu_queues'[c] # NULL <=> tick'.schedule[c + 1] # "idle"]_vars

\* a tick has just counted one preemption on two CPUs: one CPU changed its
\* task, the other had a task and became idle
C30_Witness ==
    /\ last = "TICK"
    /\ cpu_count = 2
    /\ preemptions = 1
    /\ Len(before.schedule) = 2
    /\ \E c \in Cpus :
          /\ before.schedule[c + 1] # "idle"
          /\ tick.schedule[c + 1] = "idle"
    /\ \E c \in Cpus :
          /\ before.schedule[c + 1] # "idle"
          /\ tick.schedule[c + 1] \notin {"idle", before.schedule[c + 1]}


\* the CPUs that a tick gave a task whose current CPU was another CPU
MigratedCpus ==
    {c \in Cpus : /\ cpu_queues'[c] # NULL
                  /\ task[cpu_queues'[c]].current_cpu >= 0
                  /\ task[cpu_queues'[c]].current_cpu # c}

\* a task has a current CPU exactly while it holds that CPU's slot
CpuIsSlot ==
    \A h \in SeqToSet(all_tasks) :
       /\ task[h].current_cpu >= 0 => cpu_queues[task[h].current_cpu] = h
       /\ \A c \in Cpus : cpu_queues[c] = h => task[h].current_cpu = c

\* C31: the migrations counter starts every tick at 0 and at its end is the
\* number of tasks selected in the tick whose current CPU before was another
\* CPU index; a task without a current CPU adds nothing, and a task is
\* without one when it is new, was unblocked, or was not selected in the
\* last tick (a current CPU is the slot the task holds)
C31_Migrations ==
    [][/\ IsTick =>
             /\ migrations' = Cardinality(MigratedCpus)
             /\ tick'.meta.migrations = migrations'
             /\ \A c, d \in Cpus :
                   (c # d /\ cpu_queues'[c] # NULL) => cpu_queues'[c] # cpu_queues'[d]
       /\ CpuIsSlot'
       /\ IsEvent("TASK_CREATE") => Created(task', all_tasks').current_cpu = -1
       /\ (IsEvent("TASK_UNBLOCK") /\ Named(ev'.task_id) # NULL
             /\ task[Named(ev'.task_id)].state = "BLOCKED") =>
             task'[Named(ev'.task_id)].current_cpu = -1]_vars

\* a tick on two CPUs has just counted one migration: one task changed its
\* CPU and the other selected task was not in the last schedule
C31_Witness ==
    /\ last = "TICK"
    /\ cpu_count = 2
    /\ migrations = 1
    /\ Len(before.schedule) = 2
    /\ \A c \in Cpus : tick.schedule[c + 1] # "idle"
    /\ \E c \in Cpus : tick.schedule[c + 1] \notin SeqToSet(before.schedule)
    /\ \E c, d \in Cpus : c # d /\ tick.schedule[c + 1] = before.schedule[d + 1]


\* the vruntime a tick adds to a task that it charges outside a burst
VruntimeDelta(h) == (quanta * NICE_0_WEIGHT * VScale) \div EffectiveWeight(h)

\* C32: quota accounting does not depend on the burst: in a tick every
\* Running task whose cgroup has a finite quota (0 or more) adds quantum *
\* 1000 us to the cgroup's used, in burst or not, while the task's vruntime
\* advances only when it is not in burst
C32_QuotaDespiteBurst ==
    [][IsTick =>
          /\ \A i \in 1..Len(cgroups) :
                cgroups[i].cpu_quota_us >= 0 =>
                   cgroups'[i].quota_used =
                      (IF ResetDue(i, tick'.vtime) THEN 0
                       ELSE cgroups[i].quota_used)
                      + TickUs * Cardinality(RunningMembers(i))
          /\ \A h \in SeqToSet(all_tasks) :
                task'[h].vruntime =
                   (IF Charged(h) /\ ~task[h].is_burst
                    THEN task[h].vruntime + VruntimeDelta(h)
                    ELSE task[h].vruntime)]_vars


\* the (tick, CPU) pairs on which a task of the set hs was scheduled
RECURSIVE TimesScheduled(_)
TimesScheduled(hs) ==
    IF hs = {} THEN 0
    ELSE LET h == CHOOSE x \in hs : TRUE
         IN  ran[h] + TimesScheduled(hs \ {h})

\* C33: without CgroupModify and TaskMoveCgroup, within a period (here the
\* first period of the cgroup, which no tick ends) the runtime given to a
\* cgroup with a finite quota stays within the quota: the number of (tick,
\* CPU) pairs on which a member was scheduled, times quantum * 1000 us, is
\* at most the quota
C33_RuntimeBound ==
    \A i \in 1..Len(cgroups) :
       (cgroups[i].cpu_quota_us >= 0 /\ cgroups[i].period_start_vtime = 0) =>
          TimesScheduled(Members(i)) * TickUs <= cgroups[i].cpu_quota_us


\* what the accounting of this tick adds to the used runtime of record i
ChargeOf(i) ==
    IF cgroups[i].cpu_quota_us > 0
    THEN TickUs * Cardinality(RunningMembers(i)) ELSE 0

\* whether this tick is earlier than the start of the period of record i
Skewed(i) == tick'.vtime < cgroups[i].period_start_vtime

\* C34: after every tick the period start of every cgroup is at most the
\* current virtual time, also when ticks arrive out of order: a tick earlier
\* than a cgroup's period start resets that cgroup (used restarts from 0,
\* the period starts at the tick) and rewinds nothing else: the other fields
\* of the record, the cgroups whose period neither is ahead of the tick nor
\* has elapsed, the registry, and no task's vruntime
C34_PeriodStart ==
    [][IsTick =>
          /\ current_vtime' = tick'.vtime
          /\ Len(cgroups') = Len(cgroups)
          /\ all_tasks' = all_tasks
          /\ \A h \in SeqToSet(all_tasks) :
                task'[h].vruntime >= task[h].vruntime
          /\ \A i \in 1..Len(cgroups) :
                /\ cgroups'[i].period_start_vtime <= current_vtime'
                /\ Skewed(i) =>
                      cgroups'[i] =
                         [cgroups[i] EXCEPT
                             !.quota_used = ChargeOf(i),
                             !.period_start_vtime = tick'.vtime]
                /\ (~Skewed(i) /\ ~ResetDue(i, tick'.vtime)) =>
                      cgroups'[i] =
                         [cgroups[i] EXCEPT
                             !.quota_used = @ + ChargeOf(i)]]_vars

\* a cgroup was created at virtual time 1 and the next tick, the third, was
\* for time 0: the cgroup's period now starts at 0
C34_Witness ==
    /\ last = "TICK"
    /\ before.last = "CGROUP_CREATE"
    /\ nticks = 3
    /\ current_vtime = 0
    /\ Len(cgroups) = 1
    /\ cgroups[1].cgroup_id = before.arg
    /\ cgroups[1].period_start_vtime = 0
    /\ \E h \in SeqToSet(all_tasks) : task[h].vruntime > 0


\* C35: TaskMoveCgroup changes only the cgroup membership of the task it
\* names: the task's other fields (state, vruntime, CPU, queue position), the
\* other tasks, the heap, every cgroup record (used and period start too),
\* the CPU slots and the scheduler's counters stay as they were
C35_MoveCgroupFrame ==
    [][IsEvent("TASK_MOVE_CGROUP") =>
          /\ UNCHANGED <<cpu_count, quanta, current_vtime, preemptions,
                         migrations, all_tasks, cgroups, heap, cpu_queues,
                         tick>>
          /\ DOMAIN task' = DOMAIN task
          /\ \A h \in DOMAIN task :
                task'[h] = IF h = Named(ev'.task_id)
                           THEN [task[h] EXCEPT !.cgroup_id = ev'.new_cgroup_id]
                           ELSE task[h]]_vars

\* the only task ran on ticks 0 and 1 and was then moved into a cgroup that
\* has existed since time 0 with a quota and no used runtime: the task was
\* not its member at tick 1, and the move has left it Running in its slot
C35_Witness ==
    /\ last = "TASK_MOVE_CGROUP"
    /\ Len(all_tasks) = 1
    /\ nticks = 2
    /\ current_vtime = 1
    /\ ran[all_tasks[1]] = 2
    /\ task[all_tasks[1]].cgroup_id = ev.new_cgroup_id
    /\ task[all_tasks[1]].state = "RUNNING"
    /\ task[all_tasks[1]].vruntime > 0
    /\ \E c \in Cpus : cpu_queues[c] = all_tasks[1]
    /\ RecordOf(all_tasks[1]) # NULL
    /\ cgroups[RecordOf(all_tasks[1])].cpu_quota_us > 0
    /\ cgroups[RecordOf(all_tasks[1])].quota_used = 0
    /\ cgroups[RecordOf(all_tasks[1])].period_start_vtime = 0


\* C36: TaskUnblock takes effect only on a Blocked task, which becomes
\* Runnable and enters the queue; for a task that is Runnable or Running (or
\* does not exist) it leaves the state, the vruntime, the current CPU, the
\* queue position, the heap and the CPU slots as they were
C36_UnblockOnlyBlocked ==
    [][IsEvent("TASK_UNBLOCK") =>
          LET h == Named(ev'.task_id)
          IN  /\ (h = NULL \/ task[h].state # "BLOCKED") => SchedulerUnchanged
              /\ (h # NULL /\ task[h].state = "BLOCKED") =>
                    /\ task'[h].state = "RUNNABLE"
                    /\ task'[h].heap_index >= 0
                    /\ heap'[task'[h].heap_index + 1] = h
                    /\ Len(heap') = Len(heap) + 1
                    /\ cpu_queues' = cpu_queues]_vars

\* TaskUnblock has named a task that is Running in a CPU slot, with a
\* vruntime above 0, while another task waits in the queue
C36_Witness ==
    /\ last = "TASK_UNBLOCK"
    /\ Named(arg) # NULL
    /\ task[Named(arg)].state = "RUNNING"
    /\ task[Named(arg)].vruntime > 0
    /\ task[Named(arg)].heap_index = -1
    /\ \E c \in Cpus : cpu_queues[c] = Named(arg) /\ task[Named(arg)].current_cpu = c
    /\ Len(heap) = 1
    /\ ret = 0


\* the runtime planned for each cgroup record at the end of the tick that
\* led to this state: one tick for every CPU given to a member of a record
\* with a finite quota
PlannedAtEnd ==
    [r \in 1..Len(cgroups) |->
        IF cgroups[r].cpu_quota_us >= 0
        THEN TickUs * Cardinality(
                 {c \in Cpus :
                     /\ cpu_queues[c] # NULL
                     /\ scheduler_find_cgroup(
                           cgroups, task[cpu_queues[c]].cgroup_id) = r})
        ELSE 0]

\* the tasks that are Runnable and hold no CPU slot
Unassigned ==
    {h \in SeqToSet(all_tasks) :
        task[h].state = "RUNNABLE" /\ \A c \in Cpus : cpu_queues[c] # h}

\* every idle CPU is idle because each Runnable, unassigned task fails one of
\* the three filters for it
IdleJustified ==
    \A c \in Cpus :
       /\ tick.schedule[c + 1] = "idle" <=> cpu_queues[c] = NULL
       /\ cpu_queues[c] = NULL =>
             \A h \in Unassigned :
                ~PassesFilters(task[h], cgroups, PlannedAtEnd, c, TickUs)

\* C37: selection is work-conserving per CPU: at the end of a tick CPU c is
\* idle only if every task that is Runnable and unassigned fails a filter
\* for c: its affinity, the mask of its cgroup, or the quota of its cgroup
\* with the used runtime and the runtime planned in this tick
C37_WorkConserving == [][IsTick => IdleJustified']_vars

\* after a tick one CPU runs a task and the other is idle although a Runnable
\* task waits that both CPUs may run: the quota of its cgroup would admit a
\* tick by the used runtime alone, not with the tick planned for the other
\* member
C37_Witness ==
    /\ last = "TICK"
    /\ \E c \in Cpus, h \in Unassigned :
          /\ cpu_queues[c] = NULL
          /\ task[h].cpu_affinity = <<>>
          /\ RecordOf(h) # NULL
          /\ cgroups[RecordOf(h)].cpu_mask = <<>>
          /\ cgroups[RecordOf(h)].quota_used + TickUs
                <= cgroups[RecordOf(h)].cpu_quota_us
          /\ PlannedAtEnd[RecordOf(h)] > 0


\* the task object h is Runnable or Running, some CPU is allowed by its
\* affinity and the mask of its cgroup, and the quota of its cgroup is
\* unlimited or positive
Schedulable(h) ==
    /\ h \in DOMAIN task
    /\ task[h].state \in {"RUNNABLE", "RUNNING"}
    /\ \E c \in Cpus : Allowed(h, c)
    /\ \/ RecordOf(h) = NULL
       \/ cgroups[RecordOf(h)].cpu_quota_us # 0

\* the task object h holds a CPU slot
OnCpu(h) == \E c \in Cpus : cpu_queues[c] = h

FullQuotaCase ==
    /\ Len(all_tasks) = 1
    /\ Len(cgroups) = 1
    /\ cpu_count = 1
    /\ RecordOf(all_tasks[1]) = 1
    /\ task[all_tasks[1]].state \in {"RUNNABLE", "RUNNING"}
    /\ cgroups[1].cpu_quota_us >= cgroups[1].cpu_period_us
    /\ cgroups[1].cpu_quota_us >= TickUs

\* C39: a cgroup whose quota is at least its period (and at least a tick)
\* does not throttle a single task: the only task, the only member of such a
\* cgroup, on one CPU, is scheduled on every tick of a strictly increasing
\* sequence
C39_FullQuota ==
    [][(IsTick /\ FullQuotaCase) =>
          tick'.schedule = <<task[all_tasks[1]].task_id>>]_vars


\* C40: no event decreases a task's vruntime: for every task in any state
\* (Runnable, Running or Blocked) the vruntime after TaskYield, TaskUnblock,
\* TaskSetNice, TaskMoveCgroup or CpuBurst is at least the vruntime before
\* the event, and no vruntime is ever negative
C40_VruntimeMonotone ==
    [][/\ (nevents' = nevents + 1
             /\ last' \in {"TASK_YIELD", "TASK_UNBLOCK", "TASK_SETNICE",
                           "TASK_MOVE_CGROUP", "CPU_BURST"}) =>
             \A h \in DOMAIN task : task'[h].vruntime >= task[h].vruntime
       /\ \A h \in DOMAIN task' : task'[h].vruntime >= 0]_vars


====
